---- MODULE Spec2Model ----
(***************************************************************************)
(* Model of the background export pipeline of the Pinterest shopping       *)
(* helper: the orchestrator startBackgroundExport (background.js) and the  *)
(* enrichment client functions of utils/gemini.js.                         *)
(***************************************************************************)
EXTENDS Integers, Sequences, FiniteSets, TLC

(***************************************************************************)
(* Bounds of the model.                                                    *)
(***************************************************************************)
\* Largest number of records in the payload of one START_EXPORT message.
MaxPins == 3

\* The service's advisory "retry in X s" is drawn from 0, 0.5, ... seconds;
\* the bound is the largest X in half seconds.
MaxAdvisoryHalfSec == 2

\* The surface's total extent is drawn from 50, 100, ... px; the bound is the
\* largest extent in units of 50 px.
MaxExtentUnits == 4

\* Number of distinct pin links the surface can show.
MaxLinks == 2

\* Largest number of records one extraction pass yields.
MaxPassLen == 2

\* Number of START_EXPORT messages delivered to the listener.
MaxRuns == 2

\* Largest selected.length of a run started through the listener.
MaxRunPins == 3

\* Largest number of phrases a candidate title text is made of.
MaxParts == 2

\* Largest number of <source> children of a card's <video>.
MaxSources == 2

\* Source images are up to this many pixels wide or high, or within one
\* pixel of a multiple of MAX_SIZE up to MaxScale * MAX_SIZE.
MaxSmallDim == 3

MaxScale == 2

\* The counters of passes, scroll advances and settling pauses stop
\* counting here (the loop itself is not stopped).
MaxIters == 6

\* Number of calls of scrapeLensWindow, one after the other.
MaxLensCalls == 2

\* Largest number of pins a GET_PINS response brings to the popup.
MaxPopupPins == 2

\* Number of card elements alive at a time (in the container, awaiting a
\* removal timer or referenced by actionHistory); also the largest length
\* of actionHistory and the largest number of pending removal timers.
MaxCards == 2

\* Refresh requests are counted up to this many in flight.
MaxInFlight == 2

(***************************************************************************)
(* Program constants.                                                      *)
(***************************************************************************)
DELAY_BETWEEN_ITEMS == 2500

GEMINI_DELAY == 3500

\* The fixed pause after a transport-level exception.
ErrorPauseMs == 2000

\* downloadImageAsBase64: const MAX_SIZE = 800.
MAX_SIZE == 800

\* autoScrollUntilSettled: maxIdleIterations = 5.
MaxIdleIterations == 5

\* getPins: the tolerance of the bottom test and the three pauses.
BottomTolerance == 50

TopPauseMs == 1000

SettlePauseMs == 2500

ScrollPauseMs == 1500

\* The three retrying functions of the enrichment client.
ClientFns == {"analyze", "identify", "search"}

\* const maxAttempts = 4 (analyzeImageAndGetShoppingLinks), 3 (the others).
MaxAttempts(fn) == IF fn = "analyze" THEN 4 ELSE 3

\* 3000 * Math.pow(2, attempts) / 2000 * Math.pow(2, attempts): the wait
\* computed from the attempt count alone.
BackoffMsDecreasing(fn, a) == (IF fn = "analyze" THEN 3000 ELSE 2000) * 2 ^ (4 - a)

BackoffMs(fn, a) == (IF fn = "analyze" THEN 3000 ELSE 2000) * 2 ^ a

\* Only identifyItemWithGemini and searchAllShoppingUrlsWithGemini match
\* /retry in\s+([0-9.]+)\s*s/ against data.error.message; the unified
\* function has no such code.
ReadsAdvisory(fn) == fn # "analyze"

\* Math.ceil(parseFloat(X) * 1000) + 1000 for X = h/2 seconds (halves are
\* exact in binary floating point, so the ceiling changes nothing).
AdvisoryWaitMs(h) == h * 500 + 1000

(***************************************************************************)
(* The service's response to one request.                                  *)
(*   net      FALSE when fetch itself rejects                              *)
(*   status   HTTP status (response.ok iff 200)                            *)
(*   body     "undecodable": response.json() rejects; "null": the body is  *)
(*            the JSON value null; "object": a JSON object                 *)
(*   advisory <<>> or <<h>>: error.message holds "retry in h/2 s"          *)
(*   text     candidates[0].content.parts[0].text as a token sequence,     *)
(*            <<>> when absent or empty                                    *)
(* Tokens of a text: "[" "]" "," punctuation; "oa" an object with item,    *)
(* exact_url and preferred_url; "ob" an object with item and exact_url     *)
(* only; "n" the literal null; "p" prose without brackets.                 *)
(***************************************************************************)
Texts ==
    { <<>>,
      <<"p">>,
      <<"[", "]">>,
      <<"[", "oa", "]">>,
      <<"[", "oa", ",", "ob", "]">>,
      <<"p", "[", "ob", "]", "p">>,
      <<"[", "oa", "]", "p", "[", "p", "]">>,
      <<"[", "n", "]">>,
      <<"[", "[", "oa", "]", "]">>,
      <<"[", "oa", ",", "]">>,
      <<"]", "[">> }

Advisories == {<<>>} \cup {<<h>> : h \in 0..MaxAdvisoryHalfSec}

FetchRejects ==
    [net |-> FALSE, status |-> 0, body |-> "undecodable", advisory |-> <<>>, text |-> <<>>]

Responses ==
    {FetchRejects}
    \cup {[net |-> TRUE, status |-> s, body |-> b, advisory |-> <<>>, text |-> <<>>] :
            s \in {200, 429, 500}, b \in {"undecodable", "null"}}
    \cup {[net |-> TRUE, status |-> 200, body |-> "object", advisory |-> <<>>, text |-> t] :
            t \in Texts}
    \cup {[net |-> TRUE, status |-> 429, body |-> "object", advisory |-> a, text |-> <<>>] :
            a \in Advisories}
    \cup {[net |-> TRUE, status |-> 500, body |-> "object", advisory |-> <<>>, text |-> <<>>]}

NoResponse ==
    [net |-> FALSE, status |-> 0, body |-> "none", advisory |-> <<>>, text |-> <<>>]

(***************************************************************************)
(* text.match(/\[[\s\S]*\]/): the leftmost "[" that has a "]" after it,    *)
(* extended greedily to the last "]" of the text.                          *)
(***************************************************************************)
FirstOpen(t) ==
    LET S == {k \in 1..Len(t) : t[k] = "["}
    IN  IF S = {} THEN 0 ELSE CHOOSE k \in S : \A j \in S : k <= j

LastClose(t) ==
    LET S == {k \in 1..Len(t) : t[k] = "]"}
    IN  IF S = {} THEN 0 ELSE CHOOSE k \in S : \A j \in S : j <= k

JsonMatch(t) ==
    IF FirstOpen(t) > 0 /\ LastClose(t) > FirstOpen(t)
    THEN SubSeq(t, FirstOpen(t), LastClose(t))
    ELSE <<>>

(***************************************************************************)
(* JSON.parse over tokens.  ValueEnd(s, p) is the position after the JSON  *)
(* value that starts at p, or 0 when no value starts there.                *)
(***************************************************************************)
RECURSIVE ValueEnd(_, _), RestEnd(_, _)
ValueEnd(s, p) ==
    IF p > Len(s) THEN 0
    ELSE IF s[p] \in {"oa", "ob", "n"} THEN p + 1
    ELSE IF s[p] = "["
         THEN IF p + 1 <= Len(s) /\ s[p + 1] = "]"
              THEN p + 2
              ELSE LET e == ValueEnd(s, p + 1)
                   IN  IF e = 0 THEN 0 ELSE RestEnd(s, e)
    ELSE 0

\* After an element of an array: "]" closes it, "," needs another element.
RestEnd(s, p) ==
    IF p > Len(s) THEN 0
    ELSE IF s[p] = "]" THEN p + 1
    ELSE IF s[p] = ","
         THEN LET e == ValueEnd(s, p + 1)
              IN  IF e = 0 THEN 0 ELSE RestEnd(s, e)
    ELSE 0

\* The elements of the array s (s well formed), a nested array shown as "arr".
RECURSIVE TopElems(_, _)
TopElems(s, p) ==
    IF p > Len(s) \/ s[p] = "]" THEN <<>>
    ELSE IF s[p] = "," THEN TopElems(s, p + 1)
    ELSE <<IF s[p] = "[" THEN "arr" ELSE s[p]>> \o TopElems(s, ValueEnd(s, p))

JsonValid(s) == Len(s) > 0 /\ ValueEnd(s, 1) = Len(s) + 1

(***************************************************************************)
(* Results of a client call.                                               *)
(***************************************************************************)
Null == [kind |-> "null", val |-> <<>>]

Threw == [kind |-> "threw", val |-> <<>>]

ArrayResult(v) == [kind |-> "array", val |-> v]

TextResult(t) == [kind |-> "text", val |-> t]

\* Lines 446-460 (and 246-261): the parsed array when the matched fragment
\* parses to a non-empty array, otherwise null; a JSON.parse error is caught.
ParseShopping(t) ==
    IF Len(t) = 0 THEN Null
    ELSE LET m == JsonMatch(t)
         IN  IF Len(m) > 0 /\ JsonValid(m) /\ Len(TopElems(m, 2)) > 0
             THEN ArrayResult(TopElems(m, 2))
             ELSE Null

\* Lines 140-141: text ? { text: text.trim(), base64Data } : null.
ParseIdentify(t) == IF Len(t) = 0 THEN Null ELSE TextResult(t)

SuccessResult(fn, t) == IF fn = "identify" THEN ParseIdentify(t) ELSE ParseShopping(t)

(***************************************************************************)
(* State.                                                                  *)
(***************************************************************************)
VARIABLES
    \* ---- one call of an enrichment client function ----
    cfn,            \* "none" or the function being executed
    caller,         \* "none", "orch" (startBackgroundExport) or "direct"
    cpc,            \* position: "idle", "prep", "loop", "inflight",
                    \* "backoffWait", "errWait", "returned"
    attempts,       \* let attempts
    requests,       \* number of fetch(GEMINI_API_URL) issued by this call
    waitMs,         \* duration of the pause being taken (or last taken)
    backoffs,       \* the waits computed from the attempt count, in order
    lastResp,       \* the outcome of the latest request
    afterPause,     \* "none", "rateLimit" or "error": the pause just finished
    result,         \* the value the call resolved to (or Threw)
    retSite,        \* which return statement ended the call
    \* ---- one run of startBackgroundExport ----
    opc,            \* "idle", "iter", "pacing", "download", "analyze",
                    \* "lens", "done"
    nPins,          \* selected.length
    useGemini,      \* !!geminiApiKey
    hasPrefs,       \* preferencesString is non-empty
    i,              \* loop index
    pins,           \* the records of `selected`, mutated in place
    processedPins,  \* indices into `selected`, in push order
    pacingMs,       \* duration of the pacing wait being taken (or last taken)
    noPayload,      \* records for which downloadImageAsBase64 returned null
    sentToClient,   \* records handed to analyzeImageAndGetShoppingLinks
    caught,         \* records whose processing ended in the catch block
    exportCalls,    \* number of calls of exportToHTML
    exportedPins,   \* the list handed to exportToHTML
    calls,          \* the external calls of the run that are in flight
    paceLog,        \* the pacing waits that elapsed: record index, duration
    \* ---- one harvest: getPins (content.js) ----
    hpc,            \* "idle", "top", "check", "settling", "scrolling", "done"
    fixedSurface,   \* TRUE when the surface's total extent never changes
    viewportHeight, \* window.innerHeight
    docHeight,      \* document.body.scrollHeight
    scrollY,        \* window.scrollY
    documentHeight, \* the local sampled at the top of the iteration
    hWaitMs,        \* duration of the pause being taken (or last taken)
    allPins,        \* the Map, as the list of its values in insertion order
    returned,       \* the list getPins resolved to
    observed,       \* the links seen by the extraction passes run so far
    passes,         \* number of extraction passes run (saturating)
    scrolls,        \* number of scroll advances (saturating)
    settles,        \* number of settling pauses ended (saturating)
    quietSettles,   \* number of settling pauses that ended without growth
    \* ---- addPinsToMap applied to one extraction result, repeatedly ----
    macc,           \* the accumulator
    mpass,          \* the extraction result
    mfirst,         \* the accumulator after the first application
    mcount,         \* number of applications so far
    \* ---- the START_EXPORT listener and the runs it started ----
    runs,           \* per run: position, loop index, selected.length
    \* ---- one image element handled by extractVisiblePins ----
    epc,            \* "idle", "card" (inputs read) or "pushed"
    eVariant,       \* which copy of the extractor: "content" or "part_001"
    eText,          \* itemTitle || baseTitle
    eHasVideo,      \* card.querySelector("video") is not null
    eOwnSrc,        \* videoElement.src
    eSources,       \* the src of each nested <source>, in document order
    eTitle,         \* title of the pushed record
    eVideoUrl,      \* videoUrl of the pushed record
    \* ---- the resize step of downloadImageAsBase64 ----
    zpc,            \* "idle", "decoded" or "resized"
    srcW,           \* bitmap.width
    srcH,           \* bitmap.height
    outW,           \* width handed to OffscreenCanvas
    outH,           \* height handed to OffscreenCanvas
    \* ---- autoScrollUntilSettled (part_002) ----
    spc,            \* "idle", "loop", "sleeping" or "returned"
    pageHeight,     \* document.body.scrollHeight
    lastHeight,     \* let lastHeight
    idleIterations, \* let idleIterations
    highest,        \* the largest height any iteration observed
    sinceHighest,   \* iterations completed since `highest` last rose
    \* ---- scrapeLensWindow (lens.js), one entry per call ----
    lens,           \* per call: window, listener, timer, injection, promise
    \* ---- the review popup (popup.js) ----
    queries,        \* chrome.tabs.query calls whose callback is due
    getPins,        \* GET_PINS messages whose response callback is due
    pPins,          \* state.pins.length; the pins have the keys 1..pPins
    selections,     \* state.selections: per key "true", "false" or "unset"
    container,      \* the .card elements of cardContainer, top of the stack first
    timers,         \* per card element: pending 300 ms removal timers
    actionHistory,  \* entries {pin, previousSelection} and the card decided
    refreshDisabled,\* disabled of the refresh buttons
    exportDisabled, \* disabled of the export buttons
    decideDisabled, \* disabled of the approve and reject buttons
    undoDisabled,   \* disabled of the undo button
    trail           \* the state before the last decision, for decide-then-undo

clientVars ==
    <<cfn, caller, cpc, attempts, requests, waitMs, backoffs, lastResp,
      afterPause, result, retSite>>

orchVars ==
    <<opc, nPins, useGemini, hasPrefs, i, pins, processedPins, pacingMs,
      noPayload, sentToClient, caught, exportCalls, exportedPins>>

orchLog == <<calls, paceLog>>

harvVars ==
    <<hpc, fixedSurface, viewportHeight, docHeight, scrollY, documentHeight,
      hWaitMs, allPins, returned, observed, passes, scrolls, settles, quietSettles>>

mergeVars == <<macc, mpass, mfirst, mcount>>

listenVars == <<runs>>

extractVars == <<epc, eVariant, eText, eHasVideo, eOwnSrc, eSources, eTitle, eVideoUrl>>

resizeVars == <<zpc, srcW, srcH, outW, outH>>

idleVars == <<spc, pageHeight, lastHeight, idleIterations, highest, sinceHighest>>

\* The variables of the client, the orchestrator, getPins and addPinsToMap.
coreVars == <<clientVars, orchVars, orchLog, harvVars, mergeVars>>

lensVars == <<lens>>

popupVars ==
    <<queries, getPins, pPins, selections, container, timers, actionHistory,
      refreshDisabled, exportDisabled, decideDisabled, undoDisabled, trail>>

\* The variables of the visual-search fallback and of the review popup.
uiVars == <<lensVars, popupVars>>

\* The variables of the listener, the extractor, the resize step,
\* autoScrollUntilSettled and the fallback.
otherVars == <<listenVars, extractVars, resizeVars, idleVars, uiVars>>

vars == <<coreVars, otherVars>>

\* An external call of the run: the record it is for and what is called.
Call(rec, kind) == [rec |-> rec, kind |-> kind]

\* The calls in flight once the awaited call c has settled.
NotAwaited(c) == calls

Awaited(c) == calls \ {c}

Unset == [set |-> FALSE, val |-> <<>>]

Value(v) == [set |-> TRUE, val |-> v]

FreshPin == [lensResult |-> Unset, shoppingLinks |-> Unset, preferredLinks |-> Unset]

ClientOrchInit ==
    /\ cfn = "none" /\ caller = "none" /\ cpc = "idle"
    /\ attempts = 0 /\ requests = 0 /\ waitMs = 0 /\ backoffs = <<>>
    /\ lastResp = NoResponse /\ afterPause = "none"
    /\ result = Null /\ retSite = "none"
    /\ opc = "idle" /\ nPins = 0 /\ useGemini = FALSE /\ hasPrefs = FALSE
    /\ i = 0 /\ pins = <<>> /\ processedPins = <<>> /\ pacingMs = 0
    /\ noPayload = {} /\ sentToClient = {} /\ caught = {}
    /\ exportCalls = 0 /\ exportedPins = <<>>
    /\ calls = {} /\ paceLog = <<>>

\* No harvest has been requested.
HarvestIdle ==
    /\ hpc = "idle" /\ fixedSurface = TRUE
    /\ viewportHeight = 0 /\ docHeight = 0 /\ scrollY = 0 /\ documentHeight = 0
    /\ hWaitMs = 0 /\ allPins = <<>> /\ returned = <<>> /\ observed = {}
    /\ passes = 0 /\ scrolls = 0 /\ settles = 0 /\ quietSettles = 0

MergeIdle == macc = <<>> /\ mpass = <<>> /\ mfirst = <<>> /\ mcount = 0

\* A URL by its scheme and the rest; the empty string; the value null.
Src(scheme, rest) == [scheme |-> scheme, rest |-> rest]

EmptySrc == Src("", "")

NullUrl == Src("null", "")

\* No START_EXPORT message has been delivered.
NoRun == [pc |-> "idle", i |-> 0, n |-> 0]

ListenIdle == runs = [r \in 1..MaxRuns |-> NoRun]

ExtractIdle ==
    /\ epc = "idle" /\ eVariant = "content" /\ eText = <<>>
    /\ eHasVideo = FALSE /\ eOwnSrc = EmptySrc /\ eSources = <<>>
    /\ eTitle = <<>> /\ eVideoUrl = NullUrl

ResizeIdle == zpc = "idle" /\ srcW = 0 /\ srcH = 0 /\ outW = 0 /\ outH = 0

ScrollIdle ==
    /\ spc = "idle" /\ pageHeight = 0 /\ lastHeight = 0 /\ idleIterations = 0
    /\ highest = 0 /\ sinceHighest = 0

\* scrapeLensWindow has not been called: no window, no listener, no timer.
NoLensCall ==
    [pc |-> "idle", win |-> "none", loaded |-> FALSE, listener |-> FALSE,
     timer |-> FALSE, inject |-> FALSE, value |-> "pending", first |-> "none",
     resolves |-> 0, reacted |-> FALSE]

LensIdle == lens = [k \in 1..MaxLensCalls |-> NoLensCall]

\* No decision has been taken since the popup opened or since the last
\* operation that was not a decision.
NoTrail == [op |-> "none", sel |-> <<>>, len |-> 0]

\* The popup after its script ran: nothing loaded, and the request of the
\* last line (405) under way, which disabled the refresh and export buttons
\* and brought the decision buttons up to date.
PopupOpened ==
    /\ queries = 1 /\ getPins = 0
    /\ pPins = 0
    /\ selections = [k \in 1..MaxPopupPins |-> "unset"]
    /\ container = <<>>
    /\ timers = [c \in 1..MaxCards |-> 0]
    /\ actionHistory = <<>>
    /\ refreshDisabled = TRUE /\ exportDisabled = TRUE
    /\ decideDisabled = TRUE /\ undoDisabled = TRUE
    /\ trail = NoTrail

UiIdle == LensIdle /\ PopupOpened

CoreIdle == ClientOrchInit /\ HarvestIdle /\ MergeIdle

Init ==
    /\ CoreIdle /\ ListenIdle /\ ExtractIdle /\ ResizeIdle /\ ScrollIdle
    /\ UiIdle

(***************************************************************************)
(* The enrichment client: analyzeImageAndGetShoppingLinks (gemini.js       *)
(* 369-474), identifyItemWithGemini (14-157), searchAllShoppingUrlsWith-   *)
(* Gemini (167-275).                                                       *)
(***************************************************************************)
\* The client returns v from the return statement `site`.
Return(v, site) ==
    /\ cpc' = "returned"
    /\ result' = v
    /\ retSite' = site

\* Entry of a client function with the given arguments: the guard
\* (!apiKey || !base64Data, !apiKey, !apiKey || !itemDescription) returns
\* null; otherwise the locals are initialised (let attempts = 0).
Enter(fn, who, hasKey, hasInput) ==
    /\ cfn' = fn
    /\ caller' = who
    /\ attempts' = 0
    /\ requests' = 0
    /\ waitMs' = 0
    /\ backoffs' = <<>>
    /\ lastResp' = NoResponse
    /\ afterPause' = "none"
    /\ IF ~hasKey \/ (fn # "identify" /\ ~hasInput)
       THEN Return(Null, "guard")
       ELSE /\ cpc' = IF fn = "identify" THEN "prep" ELSE "loop"
            /\ result' = Null
            /\ retSite' = "none"

\* The functions are exposed on the global scope (gemini.js 355-359); a
\* caller other than the orchestrator invokes one while no run is active.
DirectCall ==
    /\ cpc = "idle"
    /\ opc = "idle"
    /\ \E fn \in ClientFns, hasKey \in BOOLEAN, hasInput \in BOOLEAN :
          Enter(fn, "direct", hasKey, hasInput)
    /\ UNCHANGED orchVars
    /\ UNCHANGED orchLog
    /\ UNCHANGED <<harvVars, mergeVars, otherVars>>

\* identifyItemWithGemini 20-81: fetching and resizing the image; any
\* failure there is caught by the outer try (153-156) and yields null.
ClientPrep ==
    /\ cpc = "prep"
    /\ \E ok \in BOOLEAN :
          IF ok
          THEN cpc' = "loop" /\ UNCHANGED <<result, retSite>>
          ELSE Return(Null, "outerCatch")
    /\ UNCHANGED <<cfn, caller, attempts, requests, waitMs, backoffs, lastResp, afterPause>>
    /\ UNCHANGED orchVars
    /\ UNCHANGED orchLog
    /\ UNCHANGED <<harvVars, mergeVars, otherVars>>

\* while (attempts < maxAttempts) { ... await fetch(...)
ClientSend ==
    /\ cpc = "loop"
    /\ attempts < MaxAttempts(cfn)
    /\ cpc' = "inflight"
    /\ requests' = requests + 1
    /\ afterPause' = "none"
    /\ UNCHANGED <<cfn, caller, attempts, waitMs, backoffs, lastResp, result, retSite>>
    /\ UNCHANGED orchVars
    /\ calls' = IF caller = "orch" THEN calls \cup {Call(i, "request")} ELSE calls
    /\ UNCHANGED paceLog
    /\ UNCHANGED <<harvVars, mergeVars, otherVars>>

\* The loop condition fails: the return null after the loop (151, 270, 469).
ClientExhausted ==
    /\ cpc = "loop"
    /\ attempts >= MaxAttempts(cfn)
    /\ Return(Null, "exhausted")
    /\ UNCHANGED <<cfn, caller, attempts, requests, waitMs, backoffs, lastResp, afterPause>>
    /\ UNCHANGED orchVars
    /\ UNCHANGED orchLog
    /\ UNCHANGED <<harvVars, mergeVars, otherVars>>

\* Does handling the response raise an exception inside the inner try?
\* fetch rejects; response.json() rejects; or the body is null and the code
\* dereferences it (data.candidates on success, data.error when the
\* function reads the advisory of a 429).
Throws(fn, r) ==
    \/ ~r.net
    \/ r.body = "undecodable"
    \/ /\ r.body = "null"
       /\ \/ r.status = 200
          \/ r.status = 429 /\ ReadsAdvisory(fn)

\* let waitMs = base * Math.pow(2, attempts); if (waitTimeMatch && ...)
\* waitMs = Math.ceil(parseFloat(waitTimeMatch[1]) * 1000) + 1000;
RateLimitWaitMs(fn, a, r) ==
    IF ReadsAdvisory(fn) /\ r.advisory # <<>>
    THEN AdvisoryWaitMs(r.advisory[1])
    ELSE BackoffMs(fn, a)

\* catch (error) { attempts++; if (attempts >= maxAttempts) return null;
\*                 await new Promise(r => setTimeout(r, 2000)); }
OnExceptionRethrow ==
    /\ attempts' = attempts + 1
    /\ IF attempts + 1 >= MaxAttempts(cfn)
       THEN Return(Threw, "rethrow") /\ UNCHANGED waitMs
       ELSE cpc' = "errWait" /\ waitMs' = ErrorPauseMs /\ UNCHANGED <<result, retSite>>
    /\ UNCHANGED backoffs

OnExceptionNoCount ==
    /\ attempts' = attempts
    /\ cpc' = "errWait" /\ waitMs' = ErrorPauseMs /\ UNCHANGED <<result, retSite>>
    /\ UNCHANGED backoffs

OnExceptionBackoff ==
    /\ attempts' = attempts + 1
    /\ IF attempts + 1 >= MaxAttempts(cfn)
       THEN Return(Null, "errLast") /\ UNCHANGED waitMs
       ELSE cpc' = "errWait" /\ waitMs' = BackoffMs(cfn, attempts) /\ UNCHANGED <<result, retSite>>
    /\ UNCHANGED backoffs

OnException ==
    /\ attempts' = attempts + 1
    /\ IF attempts + 1 >= MaxAttempts(cfn)
       THEN Return(Null, "errLast") /\ UNCHANGED waitMs
       ELSE cpc' = "errWait" /\ waitMs' = ErrorPauseMs /\ UNCHANGED <<result, retSite>>
    /\ UNCHANGED backoffs

\* if (response.status === 429) { ...; await new Promise(r => setTimeout(r, waitMs));
OnRateLimit(r) ==
    /\ cpc' = "backoffWait"
    /\ waitMs' = RateLimitWaitMs(cfn, attempts, r)
    /\ backoffs' = Append(backoffs, BackoffMs(cfn, attempts))
    /\ UNCHANGED <<attempts, result, retSite>>

\* if (!response.ok) { ...; console.error(...); return null; }
OnOtherStatus(r) ==
    /\ Return(Null, "status")
    /\ UNCHANGED <<attempts, waitMs, backoffs>>

\* The success path: extract the text and return the parsed value or null.
OnSuccess(r) ==
    /\ Return(SuccessResult(cfn, r.text), "success")
    /\ UNCHANGED <<attempts, waitMs, backoffs>>

\* The response (or the rejection) of the request in flight arrives and the
\* body of the loop runs up to its next await or return.
ClientReceive ==
    /\ cpc = "inflight"
    /\ \E r \in Responses :
          /\ lastResp' = r
          /\ IF Throws(cfn, r) THEN OnException
             ELSE IF r.status = 429 THEN OnRateLimit(r)
             ELSE IF r.status # 200 THEN OnOtherStatus(r)
             ELSE OnSuccess(r)
    /\ UNCHANGED <<cfn, caller, requests, afterPause>>
    /\ UNCHANGED orchVars
    /\ calls' = Awaited(Call(i, "request"))
    /\ UNCHANGED paceLog
    /\ UNCHANGED <<harvVars, mergeVars, otherVars>>

\* The rate-limit pause elapses: attempts++; continue;
ClientBackoffDone ==
    /\ cpc = "backoffWait"
    /\ attempts' = attempts + 1
    /\ cpc' = "loop"
    /\ afterPause' = "rateLimit"
    /\ UNCHANGED <<cfn, caller, requests, waitMs, backoffs, lastResp, result, retSite>>
    /\ UNCHANGED orchVars
    /\ UNCHANGED orchLog
    /\ UNCHANGED <<harvVars, mergeVars, otherVars>>

\* The pause after an exception elapses; the loop condition is tested next.
ClientErrWaitDone ==
    /\ cpc = "errWait"
    /\ cpc' = "loop"
    /\ afterPause' = "error"
    /\ UNCHANGED <<cfn, caller, attempts, requests, waitMs, backoffs, lastResp, result, retSite>>
    /\ UNCHANGED orchVars
    /\ UNCHANGED orchLog
    /\ UNCHANGED <<harvVars, mergeVars, otherVars>>

\* A direct caller receives the result; the call's locals are gone.
DirectReturn ==
    /\ cpc = "returned"
    /\ caller = "direct"
    /\ cfn' = "none" /\ caller' = "none" /\ cpc' = "idle"
    /\ attempts' = 0 /\ requests' = 0 /\ waitMs' = 0 /\ backoffs' = <<>>
    /\ lastResp' = NoResponse /\ afterPause' = "none"
    /\ result' = Null /\ retSite' = "none"
    /\ UNCHANGED orchVars
    /\ UNCHANGED orchLog
    /\ UNCHANGED <<harvVars, mergeVars, otherVars>>

(***************************************************************************)
(* The orchestrator: startBackgroundExport (background.js 27-98).          *)
(***************************************************************************)
\* d.item, d.exact_url and d.preferred_url of an element of the result; a
\* property an element lacks is undefined.
Item(d) == IF d = "oa" THEN "a" ELSE IF d = "ob" THEN "b" ELSE "undefined"

ExactUrl(d) == IF d = "oa" THEN "ua" ELSE IF d = "ob" THEN "ub" ELSE "undefined"

HasPreferredUrl(d) == d = "oa"

PreferredUrl(d) == IF d = "oa" THEN "pa" ELSE "undefined"

Link(it, u) == [item |-> it, url |-> u]

\* Lines 69-76: the three assignments to the record.
Attach(pin, R, prefs) ==
    [lensResult     |-> Value([k \in 1..Len(R) |-> Item(R[k])]),
     shoppingLinks  |-> Value([k \in 1..Len(R) |-> Link(Item(R[k]), ExactUrl(R[k]))]),
     preferredLinks |->
        IF prefs
        THEN LET P == SelectSeq(R, HasPreferredUrl)
             IN  Value([k \in 1..Len(P) |-> Link(Item(P[k]), PreferredUrl(P[k]))])
        ELSE pin.preferredLinks]

\* unifiedData.map(d => d.item) raises a TypeError on a null element, before
\* any field of the record is assigned.
AttachThrows(R) == \E k \in 1..Len(R) : R[k] = "n"

\* chrome.runtime.onMessage listener, 11-25, and 27-32: a START_EXPORT
\* message starts a run with the message's payload.
StartExport ==
    /\ opc = "idle"
    /\ cpc = "idle"
    /\ \E n \in 0..MaxPins, g \in BOOLEAN, p \in BOOLEAN :
          /\ nPins' = n
          /\ useGemini' = g
          /\ hasPrefs' = p
          /\ pins' = [k \in 1..n |-> FreshPin]
    /\ i' = 0
    /\ processedPins' = <<>>
    /\ opc' = "iter"
    /\ UNCHANGED <<pacingMs, noPayload, sentToClient, caught, exportCalls, exportedPins>>
    /\ UNCHANGED clientVars
    /\ calls' = {}
    /\ paceLog' = <<>>
    /\ UNCHANGED <<harvVars, mergeVars, otherVars>>

\* The first external call for record i is issued: downloadImageAsBase64
\* with a credential (48), fetchLensResult without (80).
BeginExternal ==
    /\ opc' = IF useGemini THEN "download" ELSE "lens"
    /\ calls' = calls \cup {Call(i, IF useGemini THEN "download" ELSE "lens")}

\* processedPins.push(pin) (93) and the loop's i++.
Push ==
    /\ processedPins' = Append(processedPins, i)
    /\ i' = i + 1
    /\ opc' = "iter"

\* `continue` inside the try block (52): the rest of the loop body, the
\* push at 93 included, is skipped.
SkipRecord ==
    /\ processedPins' = processedPins
    /\ i' = i + 1
    /\ opc' = "iter"

\* catch (err) { console.warn(...) } (89-91), then the push.
OnCatchAbort ==
    /\ caught' = caught \cup {i}
    /\ UNCHANGED <<processedPins, i>>
    /\ opc' = "done"

OnCatch ==
    /\ caught' = caught \cup {i}
    /\ Push

\* for (let i = 0; i < selected.length; i++) with i = 0: no pacing wait.
OrchBeginNoPace ==
    /\ opc = "iter"
    /\ i < nPins
    /\ BeginExternal
    /\ UNCHANGED <<nPins, useGemini, hasPrefs, i, pins, processedPins, pacingMs,
                   noPayload, sentToClient, caught, exportCalls, exportedPins>>
    /\ UNCHANGED clientVars
    /\ UNCHANGED paceLog
    /\ UNCHANGED <<harvVars, mergeVars, otherVars>>

OrchBeginFirst ==
    /\ opc = "iter"
    /\ i < nPins
    /\ i = 0
    /\ BeginExternal
    /\ UNCHANGED <<nPins, useGemini, hasPrefs, i, pins, processedPins, pacingMs,
                   noPayload, sentToClient, caught, exportCalls, exportedPins>>
    /\ UNCHANGED clientVars
    /\ UNCHANGED paceLog
    /\ UNCHANGED <<harvVars, mergeVars, otherVars>>

\* if (i > 0) await self.wait(useGemini ? GEMINI_DELAY : DELAY_BETWEEN_ITEMS);
OrchPace ==
    /\ opc = "iter"
    /\ i < nPins
    /\ i > 0
    /\ opc' = "pacing"
    /\ pacingMs' = IF useGemini THEN GEMINI_DELAY ELSE DELAY_BETWEEN_ITEMS
    /\ UNCHANGED <<nPins, useGemini, hasPrefs, i, pins, processedPins,
                   noPayload, sentToClient, caught, exportCalls, exportedPins>>
    /\ UNCHANGED clientVars
    /\ UNCHANGED orchLog
    /\ UNCHANGED <<harvVars, mergeVars, otherVars>>

OrchPacingDone ==
    /\ opc = "pacing"
    /\ BeginExternal
    /\ UNCHANGED <<nPins, useGemini, hasPrefs, i, pins, processedPins, pacingMs,
                   noPayload, sentToClient, caught, exportCalls, exportedPins>>
    /\ UNCHANGED clientVars
    /\ paceLog' = Append(paceLog, [rec |-> i, ms |-> pacingMs])
    /\ UNCHANGED <<harvVars, mergeVars, otherVars>>

\* downloadImageAsBase64 settles (48-55): with data the enrichment client is
\* called; with null the record is skipped by `continue`; a rejection (the
\* FileReader promise returned at gemini.js 338 is not awaited inside the
\* try) lands in the catch block.
OrchDownloadDone ==
    /\ opc = "download"
    /\ \E outcome \in {"data", "null", "reject"} :
          \/ /\ outcome = "data"
             /\ Enter("analyze", "orch", TRUE, TRUE)
             /\ opc' = "analyze"
             /\ sentToClient' = sentToClient \cup {i}
             /\ UNCHANGED <<i, processedPins, noPayload, caught>>
          \/ /\ outcome = "null"
             /\ noPayload' = noPayload \cup {i}
             /\ SkipRecord
             /\ UNCHANGED <<sentToClient, caught>>
             /\ UNCHANGED clientVars
          \/ /\ outcome = "reject"
             /\ OnCatch
             /\ UNCHANGED <<sentToClient, noPayload>>
             /\ UNCHANGED clientVars
    /\ UNCHANGED <<nPins, useGemini, hasPrefs, pins, pacingMs, exportCalls, exportedPins>>
    /\ calls' = Awaited(Call(i, "download"))
    /\ UNCHANGED paceLog
    /\ UNCHANGED <<harvVars, mergeVars, otherVars>>

\* if (unifiedData && unifiedData.length > 0) (68).
HasResultAlways(r) == TRUE

HasResult(r) == r.kind = "array" /\ Len(r.val) > 0

\* The client's promise settles (65-77, 89-93).
OrchAnalyzeDone ==
    /\ opc = "analyze"
    /\ cpc = "returned"
    /\ caller = "orch"
    /\ IF result.kind = "threw" \/ (result.kind = "array" /\ AttachThrows(result.val))
       THEN OnCatch /\ UNCHANGED pins
       ELSE /\ pins' = IF HasResult(result)
                       THEN [pins EXCEPT ![i + 1] = Attach(@, result.val, hasPrefs)]
                       ELSE pins
            /\ Push
            /\ UNCHANGED caught
    /\ cfn' = "none" /\ caller' = "none" /\ cpc' = "idle"
    /\ UNCHANGED <<attempts, requests, waitMs, backoffs, lastResp, afterPause, result, retSite>>
    /\ UNCHANGED <<nPins, useGemini, hasPrefs, pacingMs, noPayload, sentToClient,
                   exportCalls, exportedPins>>
    /\ UNCHANGED orchLog
    /\ UNCHANGED <<harvVars, mergeVars, otherVars>>

\* fetchLensResult (lens.js scrapeLensWindow) resolves to the scraped text,
\* to an empty string or to null (80-87).
OrchLensDone ==
    /\ opc = "lens"
    /\ \E outcome \in {"text", "empty", "null"} :
          pins' = IF outcome = "text"
                  THEN [pins EXCEPT ![i + 1].lensResult = Value(<<"lens">>)]
                  ELSE pins
    /\ Push
    /\ UNCHANGED <<nPins, useGemini, hasPrefs, pacingMs, noPayload, sentToClient,
                   caught, exportCalls, exportedPins>>
    /\ UNCHANGED clientVars
    /\ calls' = Awaited(Call(i, "lens"))
    /\ UNCHANGED paceLog
    /\ UNCHANGED <<harvVars, mergeVars, otherVars>>

\* The loop ends: self.exportToHTML(processedPins, ...) (97).
OrchExport ==
    /\ opc = "iter"
    /\ i >= nPins
    /\ exportCalls' = exportCalls + 1
    /\ exportedPins' = processedPins
    /\ opc' = "done"
    /\ UNCHANGED <<nPins, useGemini, hasPrefs, i, pins, processedPins, pacingMs,
                   noPayload, sentToClient, caught>>
    /\ UNCHANGED clientVars
    /\ UNCHANGED orchLog
    /\ UNCHANGED <<harvVars, mergeVars, otherVars>>

Next ==
    \/ DirectCall
    \/ DirectReturn
    \/ ClientPrep
    \/ ClientSend
    \/ ClientExhausted
    \/ ClientReceive
    \/ ClientBackoffDone
    \/ ClientErrWaitDone
    \/ StartExport
    \/ OrchBeginFirst
    \/ OrchPace
    \/ OrchPacingDone
    \/ OrchDownloadDone
    \/ OrchAnalyzeDone
    \/ OrchLensDone
    \/ OrchExport

Spec == Init /\ [][Next]_vars

\* The steps that end a wait of the run or of the client: a timer fires, an
\* external call returns, the loop goes on.
RunStep ==
    \/ ClientPrep
    \/ ClientSend
    \/ ClientExhausted
    \/ ClientReceive
    \/ ClientBackoffDone
    \/ ClientErrWaitDone
    \/ OrchBeginFirst
    \/ OrchPace
    \/ OrchPacingDone
    \/ OrchDownloadDone
    \/ OrchAnalyzeDone
    \/ OrchLensDone
    \/ OrchExport

\* The behaviours in which every timer fires and every external call
\* returns.
FairSpec == Spec /\ WF_vars(RunStep)

(***************************************************************************)
(* The harvester: getPins (content.js 183-239).                            *)
(***************************************************************************)
\* A harvested record: its link and what the pass read for it (title, image).
Links == 1..MaxLinks

Titles == {"A", "B"}

Records == [link : Links, title : Titles]

\* What extractVisiblePins() can return: any list of records, several with
\* the same link included (one per image of a card).
Passes == UNION {[1..n -> Records] : n \in 0..MaxPassLen}

Extents == {50 * u : u \in 1..MaxExtentUnits}

Viewports == {0, 50, 100}

\* const key = pin.link;
KeyOfTitle(pin) == pin.title

KeyOf(pin) == pin.link

\* if (!allPins.has(key)) allPins.set(key, pin);
AddPinToMapAlways(acc, pin) == Append(acc, pin)

AddPinToMapLastWins(acc, pin) ==
    IF \E j \in 1..Len(acc) : KeyOf(acc[j]) = KeyOf(pin)
    THEN [j \in 1..Len(acc) |-> IF KeyOf(acc[j]) = KeyOf(pin) THEN pin ELSE acc[j]]
    ELSE Append(acc, pin)

\* A new key placed in front of the keys already stored.
AddPinToMapInFront(acc, pin) ==
    IF \E j \in 1..Len(acc) : KeyOf(acc[j]) = KeyOf(pin)
    THEN acc
    ELSE <<pin>> \o acc

AddPinToMap(acc, pin) ==
    IF \E j \in 1..Len(acc) : KeyOf(acc[j]) = KeyOf(pin)
    THEN acc
    ELSE Append(acc, pin)

\* pins.forEach(pin => ...)
RECURSIVE AddPinsToMap(_, _)
AddPinsToMap(acc, pins_) ==
    IF pins_ = <<>> THEN acc
    ELSE AddPinsToMap(AddPinToMap(acc, Head(pins_)), Tail(pins_))

LinksOf(list) == {list[j].link : j \in 1..Len(list)}

Count(c) == IF c < MaxIters THEN c + 1 ELSE c

\* (viewportHeight + currentScrollTop) >= documentHeight - 50
AtBottomNoTolerance(v, y, h) == v + y >= h

AtBottomPlusTolerance(v, y, h) == v + y >= h + BottomTolerance

AtBottom(v, y, h) == v + y >= h - BottomTolerance

\* newHeight > documentHeight
GrewBeyondTolerance(new, old) == new > old + BottomTolerance

Grew(new, old) == new > old

\* window.scrollBy({ top: viewportHeight * 0.6 }): the browser clamps the
\* position to the scrollable range of the current extent.
ScrollTarget(v, y, h) ==
    LET target == y + (v * 6) \div 10
        limit  == IF h > v THEN h - v ELSE 0
    IN  IF target > limit THEN limit ELSE target

\* while (true)
LoopConditionCapped == scrolls < 2

LoopCondition == TRUE

\* addPinsToMap(extractVisiblePins()) with the pass yielding p.
ExtractAndMerge(p) ==
    /\ allPins' = AddPinsToMap(allPins, p)
    /\ observed' = observed \cup LinksOf(p)
    /\ passes' = Count(passes)

\* A GET_PINS message (241-250) starts getPins: a fresh Map, the view reset
\* to the top, the first pause (183-197).  The surface is the environment.
HarvestStart ==
    /\ hpc = "idle"
    /\ \E v \in Viewports, h \in Extents, f \in BOOLEAN :
          /\ viewportHeight' = v
          /\ docHeight' = h
          /\ fixedSurface' = f
    /\ scrollY' = 0
    /\ allPins' = <<>>
    /\ hpc' = "top"
    /\ hWaitMs' = TopPauseMs
    /\ UNCHANGED <<documentHeight, returned, observed, passes, scrolls, settles, quietSettles>>
    /\ UNCHANGED <<clientVars, orchVars, orchLog, mergeVars, otherVars>>

\* Lazy loading: during a pause the surface's total extent grows.
SurfaceGrows ==
    /\ hpc \in {"top", "settling", "scrolling"}
    /\ ~fixedSurface
    /\ \E h \in Extents : h > docHeight /\ docHeight' = h
    /\ UNCHANGED <<hpc, fixedSurface, viewportHeight, scrollY, documentHeight, hWaitMs,
                   allPins, returned, observed, passes, scrolls, settles, quietSettles>>
    /\ UNCHANGED <<clientVars, orchVars, orchLog, mergeVars, otherVars>>

\* The first pause elapses: the initial scrape at the top (200).
HarvestInitialPass ==
    /\ hpc = "top"
    /\ \E p \in Passes : ExtractAndMerge(p)
    /\ hpc' = "check"
    /\ UNCHANGED <<fixedSurface, viewportHeight, docHeight, scrollY, documentHeight,
                   hWaitMs, returned, scrolls, settles, quietSettles>>
    /\ UNCHANGED <<clientVars, orchVars, orchLog, mergeVars, otherVars>>

\* The top of an iteration (203-211, 225-232): the extent is sampled; at the
\* bottom the settling pause starts, otherwise the view advances by 60 % of
\* the visible extent and the scroll pause starts.
HarvestIterate ==
    /\ hpc = "check"
    /\ documentHeight' = docHeight
    /\ IF ~LoopCondition
       THEN /\ hpc' = "done"
            /\ returned' = allPins
            /\ UNCHANGED <<scrollY, hWaitMs, scrolls>>
       ELSE IF AtBottom(viewportHeight, scrollY, docHeight)
       THEN /\ hpc' = "settling"
            /\ hWaitMs' = SettlePauseMs
            /\ UNCHANGED <<scrollY, scrolls, returned>>
       ELSE /\ scrollY' = ScrollTarget(viewportHeight, scrollY, docHeight)
            /\ hpc' = "scrolling"
            /\ hWaitMs' = ScrollPauseMs
            /\ scrolls' = Count(scrolls)
            /\ UNCHANGED returned
    /\ UNCHANGED <<fixedSurface, viewportHeight, docHeight, allPins, observed, passes,
                   settles, quietSettles>>
    /\ UNCHANGED <<clientVars, orchVars, orchLog, mergeVars, otherVars>>

\* The settling pause elapses (213-222): with a larger extent the loop
\* continues; otherwise the final scrape, break, and the return (238).
HarvestSettleDone ==
    /\ hpc = "settling"
    /\ settles' = Count(settles)
    /\ IF Grew(docHeight, documentHeight)
       THEN /\ hpc' = "check"
            /\ UNCHANGED <<allPins, observed, passes, returned, quietSettles>>
       ELSE /\ \E p \in Passes : ExtractAndMerge(p)
            /\ returned' = allPins'
            /\ quietSettles' = Count(quietSettles)
            /\ hpc' = "done"
    /\ UNCHANGED <<fixedSurface, viewportHeight, docHeight, scrollY, documentHeight,
                   hWaitMs, scrolls>>
    /\ UNCHANGED <<clientVars, orchVars, orchLog, mergeVars, otherVars>>

\* The scroll pause elapses: the scrape at this position (235).
HarvestScrollNoPass ==
    /\ hpc = "scrolling"
    /\ hpc' = "check"
    /\ UNCHANGED <<fixedSurface, viewportHeight, docHeight, scrollY, documentHeight,
                   hWaitMs, allPins, returned, observed, passes, scrolls, settles,
                   quietSettles>>
    /\ UNCHANGED <<clientVars, orchVars, orchLog, mergeVars, otherVars>>

HarvestScrollPass ==
    /\ hpc = "scrolling"
    /\ \E p \in Passes : ExtractAndMerge(p)
    /\ hpc' = "check"
    /\ UNCHANGED <<fixedSurface, viewportHeight, docHeight, scrollY, documentHeight,
                   hWaitMs, returned, scrolls, settles, quietSettles>>
    /\ UNCHANGED <<clientVars, orchVars, orchLog, mergeVars, otherVars>>

\* The steps getPins takes by itself once started: its timers elapse.
HarvestStep ==
    \/ HarvestInitialPass
    \/ HarvestIterate
    \/ HarvestSettleDone
    \/ HarvestScrollPass

HarvestNext ==
    \/ HarvestStart
    \/ SurfaceGrows
    \/ HarvestInitialPass
    \/ HarvestIterate
    \/ HarvestSettleDone
    \/ HarvestScrollPass

\* Timers of a page that stays open fire, so a started harvest keeps taking
\* its steps; nothing forces a GET_PINS message or growth of the surface.
HarvestSpec == Init /\ [][HarvestNext]_vars /\ WF_vars(HarvestStep)

(***************************************************************************)
(* addPinsToMap as a function: an accumulator the harvester can hold (no   *)
(* two records with one link) and an extraction result, merged repeatedly. *)
(***************************************************************************)
Accumulators ==
    {a \in UNION {[1..n -> Records] : n \in 0..MaxLinks} :
        \A j, k \in 1..Len(a) : a[j].link = a[k].link => j = k}

MergeInit ==
    /\ ClientOrchInit
    /\ HarvestIdle
    /\ ListenIdle /\ ExtractIdle /\ ResizeIdle /\ ScrollIdle /\ UiIdle
    /\ macc \in Accumulators
    /\ mpass \in Passes
    /\ mfirst = <<>>
    /\ mcount = 0

\* addPinsToMap(mpass) once more.
MergeApply ==
    /\ mcount < 3
    /\ macc' = AddPinsToMap(macc, mpass)
    /\ mfirst' = IF mcount = 0 THEN macc' ELSE mfirst
    /\ mcount' = mcount + 1
    /\ UNCHANGED mpass
    /\ UNCHANGED <<clientVars, orchVars, orchLog, harvVars, otherVars>>

\* Another extraction pass: a different rendered state is merged next.
MergeObserve ==
    /\ mcount > 0
    /\ \E p \in Passes : p # mpass /\ mpass' = p
    /\ mfirst' = <<>>
    /\ mcount' = 0
    /\ UNCHANGED macc
    /\ UNCHANGED <<clientVars, orchVars, orchLog, harvVars, otherVars>>

MergeNext ==
    \/ MergeApply
    \/ MergeObserve

MergeSpec == MergeInit /\ [][MergeNext]_vars

(***************************************************************************)
(* The START_EXPORT listener (background.js 11-25) and the runs of         *)
(* startBackgroundExport it starts, each reduced to its loop positions.    *)
(***************************************************************************)
RunIds == 1..MaxRuns

Active(r) == runs[r].pc \notin {"idle", "done"}

\* Where a run with n records is when it next yields, its loop index being
\* k: an async function runs without interruption up to its next await.
\* With a record left that is the pacing wait for k > 0 (39-41) and the first
\* external call for k = 0 (48, 80); with none left exportToHTML (97) has
\* been called and the run is over.
NextAwait(k, n) ==
    [pc |-> IF k >= n THEN "done" ELSE IF k > 0 THEN "pacing" ELSE "call",
     i  |-> k,
     n  |-> n]

\* chrome.runtime.onMessage: a START_EXPORT message is delivered and
\* startBackgroundExport(message.payload) is called (12-14); the listener
\* tests nothing but message.action.  Runs are numbered in arrival order.
ListenerStart ==
    /\ \E r \in RunIds, n \in 0..MaxRunPins :
          /\ runs[r].pc = "idle"
          /\ \A q \in RunIds : q < r => runs[q].pc # "idle"
          /\ runs' = [runs EXCEPT ![r] = NextAwait(0, n)]
    /\ UNCHANGED <<coreVars, uiVars, extractVars, resizeVars, idleVars>>

\* The pacing wait of run r elapses and the record's external calls start.
RunPaced(r) ==
    /\ runs[r].pc = "pacing"
    /\ runs' = [runs EXCEPT ![r].pc = "call"]
    /\ UNCHANGED <<coreVars, uiVars, extractVars, resizeVars, idleVars>>

\* The external calls of the record settle; the loop of run r moves on
\* (52, 93-94) to its next await.
RunCallDone(r) ==
    /\ runs[r].pc = "call"
    /\ runs' = [runs EXCEPT ![r] = NextAwait(runs[r].i + 1, runs[r].n)]
    /\ UNCHANGED <<coreVars, uiVars, extractVars, resizeVars, idleVars>>

ListenerNext ==
    \/ ListenerStart
    \/ \E r \in RunIds : RunPaced(r)
    \/ \E r \in RunIds : RunCallDone(r)

ListenerSpec == Init /\ [][ListenerNext]_vars

(***************************************************************************)
(* The extractor: what extractVisiblePins does for one image element of a  *)
(* card (content.js 94-177, part_001 96-189).                              *)
(*                                                                         *)
(* A text is the list of its whitespace-separated words, a ":" being a     *)
(* word of its own; letter case is not kept (the patterns are /i).         *)
(***************************************************************************)
ContainsImageOf == <<"this", "contains", "an", "image", "of">>

ImageOf == <<"image", "of">>

NoDescription == <<"no", "description", "available">>

NoDescriptionDot == <<"no", "description", "available.">>

ViaHandle == <<"via", "@someuser">>

PlatformName == <<"pinterest">>

TextParts ==
    {ContainsImageOf, ImageOf, NoDescription, NoDescriptionDot, ViaHandle,
     PlatformName, <<":">>, <<"red">>, <<"a">>}

\* itemTitle || baseTitle: trimmed text of the image or the card, or "".
RECURSIVE TextsOf(_)
TextsOf(n) ==
    IF n = 0 THEN {<<>>}
    ELSE TextsOf(n - 1) \cup {t \o q : t \in TextsOf(n - 1), q \in TextParts}

TitleTexts == TextsOf(MaxParts)

StartsWith(t, pre) == Len(pre) <= Len(t) /\ SubSeq(t, 1, Len(pre)) = pre

\* [:\s]* at the start of t.
RECURSIVE DropColons(_)
DropColons(t) == IF t # <<>> /\ Head(t) = ":" THEN DropColons(Tail(t)) ELSE t

\* text.replace(/^<phrase>[:\s]*/i, "")
StripPhrase(t, phrase) ==
    IF StartsWith(t, phrase)
    THEN DropColons(SubSeq(t, Len(phrase) + 1, Len(t)))
    ELSE t

\* .replace(/No description available\.?/i, ""): the first occurrence.
StripNoDescription(t) ==
    LET S == {p \in 1..Len(t) :
                \/ StartsWith(SubSeq(t, p, Len(t)), NoDescription)
                \/ StartsWith(SubSeq(t, p, Len(t)), NoDescriptionDot)}
    IN  IF S = {} THEN t
        ELSE LET p == CHOOSE q \in S : \A r \in S : q <= r
             IN  SubSeq(t, 1, p - 1) \o SubSeq(t, p + 3, Len(t))

\* .replace(/[:\-\|]/g, " ").replace(/\s+/g, " ").trim()
NotColon(w) == w # ":"

DropPunctuation(t) == SelectSeq(t, NotColon)

\* !clean || clean.length < 2
TooShort(c) == c = <<>> \/ (Len(c) = 1 /\ c[1] = "a")

\* clean.split(" ").slice(0, n).join(" ")
FirstWords(c, n) == SubSeq(c, 1, IF Len(c) < n THEN Len(c) ELSE n)

\* generateSmartTitle of content.js (105-119); <<>> stands for null.
SmartTitleContent(text) ==
    IF text = <<>> THEN <<>>
    ELSE LET clean == DropPunctuation(StripNoDescription(
                         StripPhrase(StripPhrase(text, ContainsImageOf), ImageOf)))
         IN  IF TooShort(clean) THEN <<>> ELSE FirstWords(clean, 5)

\* genericPatterns of part_001 (111-117), those the texts here can match.
GenericPatterns == {ContainsImageOf, ImageOf, NoDescription, NoDescriptionDot, ViaHandle}

\* generateSmartTitle of part_001 (107-130).
SmartTitlePart001(text) ==
    IF text = <<>> THEN <<>>
    ELSE IF \E g \in GenericPatterns : StartsWith(text, g) THEN <<>>
    ELSE LET clean == DropPunctuation(text)
         IN  IF TooShort(clean) THEN <<>> ELSE FirstWords(clean, 6)

GenerateSmartTitle(variant, text) ==
    IF variant = "content" THEN SmartTitleContent(text) ELSE SmartTitlePart001(text)

\* `${boardName} Pin`
BoardPin == <<"board", "pin">>

\* let smartTitle = generateSmartTitle(...); if (!smartTitle) smartTitle = ...
ResolveTitle(variant, text) ==
    LET g == GenerateSmartTitle(variant, text)
    IN  IF g = <<>> THEN BoardPin ELSE g

\* The src of a <video> or <source>: empty, a blob: URL, or another URL.
OwnSrcs == {EmptySrc, Src("blob", "v"), Src("https", "v")}

NestedSrcs == {EmptySrc, Src("blob", "s"), Src("https", "s1"), Src("https", "s2")}

SourceLists == UNION {[1..n -> NestedSrcs] : n \in 0..MaxSources}

\* x && !x.startsWith("blob:")
UsableAnySrc(u) == u.scheme # ""

Usable(u) == u.scheme # "" /\ u.scheme # "blob"

\* for (const source of sources) if (source.src && !...) { videoUrl = ...; break; }
RECURSIVE FirstUsable(_)
FirstUsable(list) ==
    IF list = <<>> THEN NullUrl
    ELSE IF Usable(Head(list)) THEN Head(list)
    ELSE FirstUsable(Tail(list))

\* Lines 151-167 for a card whose <video> has src own and the given sources.
ResolveVideoUrl(own, list) ==
    LET rawUrl == IF own.scheme # "" THEN own
                  ELSE IF list # <<>> THEN Head(list) ELSE EmptySrc
    IN  IF Usable(rawUrl) THEN rawUrl ELSE FirstUsable(list)

\* The extractor reaches an image element that qualifies: the candidate
\* title text and the card's video are whatever the page holds.
ExtractRead ==
    /\ epc = "idle"
    /\ eVariant' \in {"content", "part_001"}
    /\ eText' \in TitleTexts
    /\ \E v \in BOOLEAN, own \in OwnSrcs, list \in SourceLists :
          /\ eHasVideo' = v
          /\ eOwnSrc' = IF v THEN own ELSE EmptySrc
          /\ eSources' = IF v THEN list ELSE <<>>
    /\ epc' = "card"
    /\ UNCHANGED <<eTitle, eVideoUrl>>
    /\ UNCHANGED <<coreVars, uiVars, listenVars, resizeVars, idleVars>>

\* The record of the image element is built and pushed (141-176).
ExtractPush ==
    /\ epc = "card"
    /\ eTitle' = ResolveTitle(eVariant, eText)
    /\ eVideoUrl' = IF eHasVideo THEN ResolveVideoUrl(eOwnSrc, eSources) ELSE NullUrl
    /\ epc' = "pushed"
    /\ UNCHANGED <<eVariant, eText, eHasVideo, eOwnSrc, eSources>>
    /\ UNCHANGED <<coreVars, uiVars, listenVars, resizeVars, idleVars>>

ExtractNext ==
    \/ ExtractRead
    \/ ExtractPush

ExtractSpec == Init /\ [][ExtractNext]_vars

(***************************************************************************)
(* The resize step of downloadImageAsBase64 (gemini.js 313-331).           *)
(***************************************************************************)
Dims ==
    (1..MaxSmallDim)
    \cup {MAX_SIZE * k + d : k \in 1..MaxScale, d \in {-1, 0, 1}}

\* Math.round(a * (MAX_SIZE / b)) for positive integers: the quotient
\* a * MAX_SIZE / b rounded to the nearest integer, halves upwards.
Scaled(a, b) == (2 * a * MAX_SIZE + b) \div (2 * b)

\* createImageBitmap(blob) resolves (313-315): any size of at least 1 x 1.
ResizeDecode ==
    /\ zpc = "idle"
    /\ srcW' \in Dims
    /\ srcH' \in Dims
    /\ zpc' = "decoded"
    /\ UNCHANGED <<outW, outH>>
    /\ UNCHANGED <<coreVars, uiVars, listenVars, extractVars, idleVars>>

\* Lines 317-331: the size handed to new OffscreenCanvas(width, height).
ResizeCompute ==
    /\ zpc = "decoded"
    /\ IF srcW > srcH
       THEN IF srcW > MAX_SIZE
            THEN outH' = Scaled(srcH, srcW) /\ outW' = MAX_SIZE
            ELSE outH' = srcH /\ outW' = srcW
       ELSE IF srcH > MAX_SIZE
            THEN outW' = Scaled(srcW, srcH) /\ outH' = MAX_SIZE
            ELSE outW' = srcW /\ outH' = srcH
    /\ zpc' = "resized"
    /\ UNCHANGED <<srcW, srcH>>
    /\ UNCHANGED <<coreVars, uiVars, listenVars, extractVars, idleVars>>

ResizeNext ==
    \/ ResizeDecode
    \/ ResizeCompute

ResizeSpec == Init /\ [][ResizeNext]_vars

(***************************************************************************)
(* The idle-counter harvester: autoScrollUntilSettled (part_002 8-31),     *)
(* called with its default arguments (149).                                *)
(***************************************************************************)
\* document.body.scrollHeight: an empty page, or one of the extents.
PageHeights == {0} \cup {50 * u : u \in 1..MaxExtentUnits}

\* if (currentHeight <= lastHeight) idleIterations += 1; else idleIterations = 0;
IdleAfterNoReset(cur, last, idle) == IF cur <= last THEN idle + 1 ELSE idle

IdleAfter(cur, last, idle) == IF cur <= last THEN idle + 1 ELSE 0

\* ... else lastHeight = currentHeight;
LastAfter(cur, last) == IF cur <= last THEN last ELSE cur

\* while (idleIterations < maxIdleIterations): scroll to the bottom and
\* sleep, or return.
LoopOrReturn(idle) == IF idle < MaxIdleIterations THEN "sleeping" ELSE "returned"

\* The call: lastHeight = 0, idleIterations = 0, first scrollTo and sleep.
ScrollStart ==
    /\ spc = "idle"
    /\ pageHeight' \in PageHeights
    /\ lastHeight' = 0
    /\ idleIterations' = 0
    /\ spc' = LoopOrReturn(0)
    /\ UNCHANGED <<highest, sinceHighest>>
    /\ UNCHANGED <<coreVars, uiVars, listenVars, extractVars, resizeVars>>

\* While the function sleeps the page loads more content, or loses some.
PageResizes ==
    /\ spc = "sleeping"
    /\ \E h \in PageHeights : h # pageHeight /\ pageHeight' = h
    /\ UNCHANGED <<spc, lastHeight, idleIterations, highest, sinceHighest>>
    /\ UNCHANGED <<coreVars, uiVars, listenVars, extractVars, resizeVars>>

\* sleep(delay) elapses (23-30): the height is read and compared, and the
\* loop condition is tested again.
ScrollWake ==
    /\ spc = "sleeping"
    /\ idleIterations' = IdleAfter(pageHeight, lastHeight, idleIterations)
    /\ lastHeight' = LastAfter(pageHeight, lastHeight)
    /\ spc' = LoopOrReturn(idleIterations')
    /\ highest' = IF pageHeight > highest THEN pageHeight ELSE highest
    /\ sinceHighest' = IF pageHeight > highest THEN 0 ELSE sinceHighest + 1
    /\ UNCHANGED pageHeight
    /\ UNCHANGED <<coreVars, uiVars, listenVars, extractVars, resizeVars>>

ScrollNext ==
    \/ ScrollStart
    \/ PageResizes
    \/ ScrollWake

ScrollSpec == Init /\ [][ScrollNext]_vars

(***************************************************************************)
(* The visual-search fallback: scrapeLensWindow (lens.js 16-142), called   *)
(* by the orchestrator as fetchLensResult, one call awaited before the     *)
(* next (background.js 80).  Each call owns a window, a tabs.onUpdated     *)
(* listener, a 15 s timer and at most one script injection; the callbacks  *)
(* of the browser arrive in any order the browser can produce.             *)
(***************************************************************************)
LensCallIds == 1..MaxLensCalls

\* resolve(v) at `site`, with every earlier resolution overwritten.
ResolvedLastWins(c, v, site) ==
    [c EXCEPT !.value = v, !.first = site, !.resolves = c.resolves + 1]

\* resolve(v) at `site`: the first resolve settles the promise, a later one
\* has no effect.
Resolved(c, v, site) ==
    [c EXCEPT !.value = IF c.value = "pending" THEN v ELSE c.value,
              !.first = IF c.value = "pending" THEN site ELSE c.first,
              !.resolves = c.resolves + 1]

\* chrome.windows.remove(windowId).catch(() => { }): the window starts to
\* close; removing a window that is closing or gone fails silently.
WindowRemoved(c) ==
    [c EXCEPT !.win = IF c.win = "open" THEN "closing" ELSE c.win]

\* The values the injected function resolves with: a non-generic text, or
\* null after its polling gave up (lens.js 101-116).
ScriptResults == {"text", "null"}

\* The call: the executor runs chrome.windows.create, which either is
\* issued or throws, and a throw is caught and resolves null (137-140).
\* The caller awaits each call before the next one.
LensCall(k) ==
    /\ lens[k].pc = "idle"
    /\ \A j \in 1..(k - 1) : lens[j].value # "pending"
    /\ \E threw \in BOOLEAN :
        lens' = [lens EXCEPT ![k] =
            IF threw
            THEN Resolved([lens[k] EXCEPT !.pc = "failed"], "null", "threw")
            ELSE [lens[k] EXCEPT !.pc = "creating"]]
    /\ UNCHANGED <<coreVars, listenVars, extractVars, resizeVars, idleVars, popupVars>>

\* The callback of chrome.windows.create (27-136): without a window it
\* resolves null; with one it starts the timer and registers the listener.
LensCreated(k) ==
    /\ lens[k].pc = "creating"
    /\ \E ok \in BOOLEAN :
        lens' = [lens EXCEPT ![k] =
            IF ok
            THEN [lens[k] EXCEPT !.pc = "created", !.win = "open",
                                 !.timer = TRUE, !.listener = TRUE]
            ELSE Resolved([lens[k] EXCEPT !.pc = "failed"], "null", "createFail")]
    /\ UNCHANGED <<coreVars, listenVars, extractVars, resizeVars, idleVars, popupVars>>

\* The 15 s timer fires (43-47): the window is removed and null resolved.
LensTimeout(k) ==
    /\ lens[k].timer
    /\ lens' = [lens EXCEPT ![k] =
            Resolved(WindowRemoved([lens[k] EXCEPT !.timer = FALSE]),
                     "null", "timeout")]
    /\ UNCHANGED <<coreVars, listenVars, extractVars, resizeVars, idleVars, popupVars>>

\* The tab of the call's window reports status "complete" while the window
\* still exists.  A registered listener (51-133) removes itself, clears the
\* timer and injects the script; `reacted` records a reaction that came
\* after the promise had settled.
LensTabComplete(k) ==
    /\ lens[k].win \in {"open", "closing"}
    /\ ~lens[k].loaded
    /\ lens' = [lens EXCEPT ![k] =
            IF lens[k].listener
            THEN [lens[k] EXCEPT !.loaded = TRUE, !.listener = FALSE,
                                 !.timer = FALSE, !.inject = TRUE,
                                 !.reacted = (lens[k].value # "pending")]
            ELSE [lens[k] EXCEPT !.loaded = TRUE]]
    /\ UNCHANGED <<coreVars, listenVars, extractVars, resizeVars, idleVars, popupVars>>

\* The callback of chrome.scripting.executeScript (120-131): the window is
\* removed, then null is resolved on lastError and the script's result
\* otherwise.
LensInjected(k) ==
    /\ lens[k].inject
    /\ \E failed \in BOOLEAN, res \in ScriptResults :
        /\ failed => res = "null"
        /\ lens' = [lens EXCEPT ![k] =
              Resolved(WindowRemoved([lens[k] EXCEPT !.inject = FALSE]),
                       res, IF failed THEN "injectFail" ELSE "injectOk")]
    /\ UNCHANGED <<coreVars, listenVars, extractVars, resizeVars, idleVars, popupVars>>

\* The browser finishes closing a window whose removal was requested.
LensWindowClosed(k) ==
    /\ lens[k].win = "closing"
    /\ lens' = [lens EXCEPT ![k].win = "closed"]
    /\ UNCHANGED <<coreVars, listenVars, extractVars, resizeVars, idleVars, popupVars>>

\* The callbacks the browser owes a call: window creation, the timer and
\* the injection.
LensCallback(k) == LensCreated(k) \/ LensTimeout(k) \/ LensInjected(k)

LensNext ==
    \E k \in LensCallIds :
        \/ LensCall(k)
        \/ LensCreated(k)
        \/ LensTimeout(k)
        \/ LensTabComplete(k)
        \/ LensInjected(k)
        \/ LensWindowClosed(k)

\* Every callback the browser owes is eventually delivered; whether a tab
\* ever finishes loading is left open.
LensSpec ==
    Init /\ [][LensNext]_vars /\ \A k \in LensCallIds : WF_vars(LensCallback(k))

(***************************************************************************)
(* The review popup (popup.js).  Every handler runs to its end before the  *)
(* next event; the callbacks of chrome.tabs.query and chrome.tabs.         *)
(* sendMessage and the 300 ms removal timers arrive between the clicks.    *)
(* The container is kept in stacking order (getStackedCards, 80-85):       *)
(* renderPins gives the first pin the highest zIndex, undoLastAction gives *)
(* its card a zIndex above all others.                                     *)
(***************************************************************************)
CardIds == 1..MaxCards

\* A card element: which element it is and its dataset.pinKey.
Card(id, key) == [id |-> id, key |-> key]

\* getSelectedPins (27-28): the loaded pins whose selection is not false.
GetSelectedPins(n, sel) == {k \in 1..n : sel[k] # "false"}

\* updateExportState (75-78): the value it gives the export buttons' disabled.
ExportDisabledFor(n, sel) == GetSelectedPins(n, sel) = {}

\* setRefreshButtonsDisabled(true) at the start of a request (349), and the
\* same line with the buttons left as they are.
RefreshLeftEnabled(was) == was

RefreshDisabledOnRequest(was) == TRUE

\* card.remove(): the container without that element, if it is in it.
Without(cards, id) == SelectSeq(cards, LAMBDA c : c.id # id)

\* The elements of a list of cards.
IdsOf(cards) == {cards[j].id : j \in 1..Len(cards)}

\* document.createElement: an element that is no other live element.
RECURSIVE Pick(_, _)
Pick(free, j) ==
    LET least == CHOOSE c \in free : \A d \in free : c <= d
    IN  IF j = 1 THEN least ELSE Pick(free \ {least}, j - 1)

\* Elements with no pending timer, not in the container and not in a
\* history entry.
FreeIds(cards, hist) ==
    {c \in CardIds : /\ timers[c] = 0
                     /\ c \notin IdsOf(cards)
                     /\ \A j \in 1..Len(hist) : hist[j].card # c}

PendingTimers == {c \in CardIds : timers[c] > 0}

RECURSIVE SumTimers(_)
SumTimers(ids) ==
    IF ids = {} THEN 0
    ELSE LET c == CHOOSE d \in ids : TRUE
         IN  timers[c] + SumTimers(ids \ {c})

\* undoLastAction with the pin selected again whatever it was before.
RestoredSelected(sel, last) == [sel EXCEPT ![last.pin] = "true"]

\* undoLastAction (150-156): the selection of the entry's pin is deleted if
\* previousSelection is undefined and set to previousSelection otherwise.
Restored(sel, last) == [sel EXCEPT ![last.pin] = last.prev]

\* updateDecisionButtonsState (102-111) for the container and history given.
UpdateDecisionButtonsState(cards, hist) ==
    /\ decideDisabled' = (cards = <<>>)
    /\ undoDisabled' = (hist = <<>>)

\* commitCardDecision (113-141): a card whose pin is not loaded is removed;
\* otherwise the selection is set, the export buttons are brought up to
\* date, {pin, previousSelection} is pushed, and the card's removal is set
\* for 300 ms later while it stays in the container.
CommitCardDecision(card, include) ==
    IF card.key \notin 1..pPins
    THEN /\ container' = Without(container, card.id)
         /\ UpdateDecisionButtonsState(container', actionHistory)
         /\ trail' = NoTrail
         /\ UNCHANGED <<selections, exportDisabled, actionHistory, timers>>
    ELSE /\ selections' = [selections EXCEPT
                              ![card.key] = IF include THEN "true" ELSE "false"]
         /\ exportDisabled' = ExportDisabledFor(pPins, selections')
         /\ actionHistory' = Append(actionHistory,
               [pin |-> card.key, prev |-> selections[card.key], card |-> card.id])
         /\ UpdateDecisionButtonsState(container, actionHistory')
         /\ timers' = [timers EXCEPT ![card.id] = @ + 1]
         /\ UNCHANGED container
         /\ trail' = [op |-> "commit", sel |-> selections, len |-> Len(actionHistory)]

\* A commit is explored while the history and the timers are within bounds.
CommitInBounds ==
    /\ Len(actionHistory) < MaxCards
    /\ SumTimers(PendingTimers) < MaxCards

\* requestPinsFromActiveTab (347-354): the buttons are disabled, the
\* history is emptied and chrome.tabs.query is called.
RequestPinsFromActiveTab ==
    /\ refreshDisabled' = RefreshDisabledOnRequest(refreshDisabled)
    /\ exportDisabled' = TRUE
    /\ actionHistory' = <<>>
    /\ UpdateDecisionButtonsState(container, <<>>)
    /\ queries' = queries + 1
    /\ trail' = NoTrail
    /\ UNCHANGED <<getPins, pPins, selections, container, timers>>

\* A click on an enabled refresh button (390-392).
PopupRefreshClick ==
    /\ ~refreshDisabled
    /\ queries + getPins < MaxInFlight
    /\ RequestPinsFromActiveTab
    /\ UNCHANGED <<coreVars, listenVars, extractVars, resizeVars, idleVars, lensVars>>

\* The callback of chrome.tabs.query (354-363): without an active tab the
\* refresh buttons are enabled again; with one, GET_PINS is sent.
PopupQueryDone ==
    /\ queries > 0
    /\ queries' = queries - 1
    /\ \E hasTab \in BOOLEAN :
          IF hasTab
          THEN getPins' = getPins + 1 /\ UNCHANGED refreshDisabled
          ELSE refreshDisabled' = FALSE /\ UNCHANGED getPins
    /\ UNCHANGED <<pPins, selections, container, timers, actionHistory,
                   exportDisabled, decideDisabled, undoDisabled, trail>>
    /\ UNCHANGED <<coreVars, listenVars, extractVars, resizeVars, idleVars, lensVars>>

\* The response callback of GET_PINS (363-386): the refresh buttons are
\* enabled; an unreachable page and a failure response end there; a success
\* replaces the pins, empties the selections, renders one card per pin
\* (renderPins 309-329, createCard 180-184 selecting each pin) and brings the
\* export buttons up to date.
PopupResponse ==
    /\ getPins > 0
    /\ getPins' = getPins - 1
    /\ refreshDisabled' = FALSE
    /\ \E outcome \in {"unreachable", "failure", "success"} :
          IF outcome = "success"
          THEN \E n \in 0..MaxPopupPins :
                  LET free == {c \in CardIds : timers[c] = 0}
                  IN  /\ Cardinality(free) >= n
                      /\ pPins' = n
                      /\ selections' = [k \in 1..MaxPopupPins |->
                                            IF k <= n THEN "true" ELSE "unset"]
                      /\ container' = [j \in 1..n |-> Card(Pick(free, j), j)]
                      /\ actionHistory' = <<>>
                      /\ UpdateDecisionButtonsState(container', <<>>)
                      /\ exportDisabled' = ExportDisabledFor(n, selections')
                      /\ trail' = NoTrail
          ELSE UNCHANGED <<pPins, selections, container, actionHistory,
                           exportDisabled, decideDisabled, undoDisabled, trail>>
    /\ UNCHANGED <<queries, timers>>
    /\ UNCHANGED <<coreVars, listenVars, extractVars, resizeVars, idleVars, lensVars>>

\* A click on the enabled approve or reject button (397-402):
\* triggerDecisionFromButton (172-178) decides the top card.
PopupDecisionClick ==
    /\ ~decideDisabled
    /\ CommitInBounds
    /\ \E include \in BOOLEAN :
          IF container = <<>>
          THEN UNCHANGED <<selections, exportDisabled, actionHistory, timers,
                           container, decideDisabled, undoDisabled, trail>>
          ELSE CommitCardDecision(Head(container), include)
    /\ UNCHANGED <<queries, getPins, pPins, refreshDisabled>>
    /\ UNCHANGED <<coreVars, listenVars, extractVars, resizeVars, idleVars, lensVars>>

\* The card on top of the stack, the one under the pointer, is dragged more
\* than 100 px and released (onPointerUp, 280-295): that card is decided.
PopupSwipe ==
    /\ CommitInBounds
    /\ container # <<>>
    /\ \E include \in BOOLEAN : CommitCardDecision(Head(container), include)
    /\ UNCHANGED <<queries, getPins, pPins, refreshDisabled>>
    /\ UNCHANGED <<coreVars, listenVars, extractVars, resizeVars, idleVars, lensVars>>

\* A 300 ms timer set by a decision fires (137-140): the card is removed,
\* if it is still in the container, and the buttons are brought up to date.
PopupCardRemoved ==
    /\ \E c \in PendingTimers :
          /\ timers' = [timers EXCEPT ![c] = @ - 1]
          /\ container' = Without(container, c)
    /\ UpdateDecisionButtonsState(container', actionHistory)
    /\ UNCHANGED <<queries, getPins, pPins, selections, actionHistory,
                   refreshDisabled, exportDisabled, trail>>
    /\ UNCHANGED <<coreVars, listenVars, extractVars, resizeVars, idleVars, lensVars>>

\* A click on the enabled undo button: undoLastAction (143-170) pops the
\* last entry, restores or deletes the selection, brings the export buttons
\* up to date and puts a new card for the pin on top; createCard selects a
\* pin that has no selection (182-184).
PopupUndo ==
    /\ ~undoDisabled
    /\ IF actionHistory = <<>>
       THEN /\ UpdateDecisionButtonsState(container, actionHistory)
            /\ trail' = NoTrail
            /\ UNCHANGED <<selections, exportDisabled, actionHistory, container>>
       ELSE LET last == actionHistory[Len(actionHistory)]
                rest == SubSeq(actionHistory, 1, Len(actionHistory) - 1)
                restored == Restored(selections, last)
                free == FreeIds(container, rest)
            IN  /\ free # {}
                /\ actionHistory' = rest
                /\ exportDisabled' = ExportDisabledFor(pPins, restored)
                /\ selections' = [restored EXCEPT ![last.pin] =
                                     IF @ = "unset" THEN "true" ELSE @]
                /\ container' = <<Card(Pick(free, 1), last.pin)>> \o container
                /\ UpdateDecisionButtonsState(container', rest)
                /\ trail' = IF trail.op = "commit"
                            THEN [trail EXCEPT !.op = "commitUndo"]
                            ELSE NoTrail
    /\ UNCHANGED <<queries, getPins, pPins, timers, refreshDisabled>>
    /\ UNCHANGED <<coreVars, listenVars, extractVars, resizeVars, idleVars, lensVars>>

PopupNext ==
    \/ PopupRefreshClick
    \/ PopupQueryDone
    \/ PopupResponse
    \/ PopupDecisionClick
    \/ PopupSwipe
    \/ PopupCardRemoved
    \/ PopupUndo

PopupSpec == Init /\ [][PopupNext]_vars

(***************************************************************************)
(* Properties of the orchestrator.                                         *)
(***************************************************************************)
\* The positions of record k in a list of record indices.
Positions(list, k) == {p \in 1..Len(list) : list[p] = k}

Unenriched(k) == pins[k + 1] = FreshPin

\* C1: for any N input records and any pattern of per-record failures, the
\* loop ends with processedPins of length N and hands exactly N records to
\* the export stage.
C1_ExportReceivesAllRecords ==
    opc = "done" => Len(processedPins) = nPins /\ Len(exportedPins) = nPins

\* C2: a record whose image payload could not be obtained (the download
\* returned null while a credential is present) is not sent to the
\* enrichment client, still appears in the output list, and has its
\* enrichment fields unset.
C2_NoPayloadRecordRetained ==
    opc = "done" =>
        \A k \in noPayload :
            /\ k \notin sentToClient
            /\ Positions(exportedPins, k) # {}
            /\ Unenriched(k)

\* C3: when processing record k raises an exception, the exception is
\* caught inside the loop, record k is appended to the output (once) with
\* its enrichment fields unset, the loop goes on to the following records,
\* and the run ends only after the last record, with the export call.
C3_CaughtRecordKeptAndLoopContinues ==
    \A k \in caught :
        /\ Cardinality(Positions(processedPins, k)) = 1
        /\ Unenriched(k)
        /\ i > k
        /\ opc # "idle"
        /\ opc = "done" => (i = nPins /\ exportCalls = 1 /\ Positions(exportedPins, k) # {})

\* Witness of C3: the run of three records in which the second record ended
\* in the catch block and is exported unenriched between the first and the
\* third, both enriched.
C3_Witness ==
    /\ opc = "done"
    /\ nPins = 3
    /\ caught = {1}
    /\ exportedPins = <<0, 1, 2>>
    /\ Unenriched(1)
    /\ pins[1].shoppingLinks.set
    /\ pins[3].shoppingLinks.set

(***************************************************************************)
(* Properties of the enrichment client.                                    *)
(***************************************************************************)
\* C4: whatever the service does on each attempt, a call of
\* analyzeImageAndGetShoppingLinks resolves to null or to a non-empty
\* array; it never throws to its caller.
C4_AnalyzeNullOrNonEmptyArray ==
    (cfn = "analyze" /\ cpc = "returned") =>
        \/ result = Null
        \/ result.kind = "array" /\ Len(result.val) > 0

\* Witness of C4: a call that met a rate limit and an exception and then
\* resolved to an array.
C4_Witness ==
    /\ cfn = "analyze" /\ cpc = "returned"
    /\ result.kind = "array"
    /\ Len(backoffs) >= 1
    /\ attempts > Len(backoffs)

\* The progress of a call through its retry loop: three per request issued,
\* plus the position inside the iteration.
Rank ==
    3 * requests +
        (IF cpc = "inflight" THEN 0
         ELSE IF cpc \in {"backoffWait", "errWait"} THEN 1
         ELSE 2)

InRetryLoop == cpc \in {"loop", "inflight", "backoffWait", "errWait"}

\* C5: one client call issues at most maxAttempts requests (4 for the
\* unified function, 3 for the other two) under every interleaving of
\* rate-limit responses and exceptions, and every step inside the retry
\* loop either returns or strictly advances a rank that is bounded by
\* 3 * maxAttempts + 2, so the call terminates.
C5_RequestsBoundedAndLoopTerminates ==
    /\ [](cfn # "none" => (requests <= MaxAttempts(cfn) /\ Rank <= 3 * MaxAttempts(cfn) + 2))
    /\ [][(InRetryLoop /\ clientVars' # clientVars) => (cpc' = "returned" \/ (InRetryLoop' /\ Rank' > Rank))]_vars

\* Witness of C5: a call that used all its requests, having met both rate
\* limits and exceptions.
C5_Witness ==
    /\ cfn \in ClientFns /\ cpc = "returned"
    /\ requests = MaxAttempts(cfn)
    /\ Len(backoffs) >= 1
    /\ attempts > Len(backoffs)

\* C6: when the service answers an attempt with a non-success status other
\* than 429, the call returns null at once: no pause, no further request.
C6_OtherStatusIsTerminal ==
    (cfn # "none" /\ lastResp.net /\ lastResp.status \notin {200, 429}) =>
        (cpc = "returned" /\ result = Null /\ retSite = "status")

\* C7: in every client function the pause taken after a 429 response is
\* derived from the service's advisory when the response carries one, and
\* is the exponential backoff only when it carries none.
C7_AdvisoryDecidesPause ==
    cpc = "backoffWait" =>
        waitMs = IF lastResp.advisory # <<>>
                 THEN lastResp.advisory[1] * 500 + 1000
                 ELSE BackoffMs(cfn, attempts)

\* C8: every pause taken after a 429 response is followed by another
\* request of the same call: when the pause ends, the loop condition holds.
C8_RateLimitPauseThenRetry ==
    afterPause = "rateLimit" => (cpc = "loop" /\ attempts < MaxAttempts(cfn))

\* C9: within one call the wait computed from the attempt count never
\* decreases from one rate-limit retry to the next, also with exceptions
\* in between.
C9_BackoffNeverDecreases ==
    \A j \in 1..Len(backoffs) : \A k \in j..Len(backoffs) : backoffs[j] <= backoffs[k]

\* Witness of C9: two rate-limit retries with an exception between them
\* (the second wait is four times the first).
C9_Witness ==
    /\ Len(backoffs) >= 2
    /\ backoffs[2] = 4 * backoffs[1]

\* C10: an attempt that fails with an exception (fetch or body decoding
\* throws) while fewer than maxAttempts attempts are used is followed by a
\* fixed 2000 ms wait and then by another request; an exception on the last
\* permitted attempt makes the call return null.
C10_ExceptionPauseAndRetry ==
    /\ [][(cpc = "inflight" /\ cpc' # "inflight" /\ Throws(cfn, lastResp')) =>
            IF attempts + 1 < MaxAttempts(cfn)
            THEN cpc' = "errWait" /\ waitMs' = 2000
            ELSE cpc' = "returned" /\ result' = Null]_vars
    /\ [][(cpc = "errWait" /\ cpc' # "errWait") => (cpc' = "loop" /\ afterPause' = "error")]_vars
    /\ [][(cpc = "loop" /\ afterPause = "error" /\ cpc' # "loop") =>
            (cpc' = "inflight" /\ requests' = requests + 1)]_vars
    /\ []((cpc = "loop" /\ afterPause = "error") => attempts < MaxAttempts(cfn))

\* Witness of C10: every permitted attempt of a call threw; the earlier
\* ones were each followed by the 2000 ms wait and a retry, the last one
\* by the return of null.
C10_Witness ==
    /\ cpc = "returned" /\ retSite = "errLast"
    /\ requests = MaxAttempts(cfn)
    /\ backoffs = <<>>
    /\ waitMs = 2000


\* Record r's iteration of the loop has ended: pushed, or skipped by the
\* `continue`.
Finished(r) == Positions(processedPins, r) # {} \/ r \in noPayload

Ascending(list) ==
    \A p, q \in 1..Len(list) : p < q => list[p] < list[q]

\* C19: within a run at most one external call (download, enrichment
\* request, Lens) is in flight; it belongs to the record the loop is at, and
\* every earlier record's processing has ended; the output list, and the
\* list handed to the export, are in input order.
C19_OneCallInFlightInOrder ==
    /\ Cardinality(calls) <= 1
    /\ \A c \in calls :
          /\ c.rec = i
          /\ opc \in {"download", "analyze", "lens"}
          /\ \A r \in 0..(c.rec - 1) : Finished(r)
    /\ Ascending(processedPins)
    /\ Ascending(exportedPins)

C19_Witness ==
    /\ nPins = 3
    /\ calls = {Call(2, "request")}
    /\ attempts >= 1
    /\ processedPins = <<0, 1>>

\* The pacing wait of a run: 3500 ms with a credential, 2500 ms without.
PacingDelay == IF useGemini THEN 3500 ELSE 2500

\* The number of records whose first external call has been issued.
Begun == IF opc \in {"download", "analyze", "lens"} THEN i + 1 ELSE i

\* C20: the completed pacing waits are exactly one for each begun record
\* 1, 2, ... in order, of 3500 ms with a credential and 2500 ms without,
\* each completed after the record before it ended (pushed, caught or
\* skipped) and before any external call for its record; none for record 0.
C20_PacingBeforeEveryLaterRecord ==
    /\ Len(paceLog) = (IF Begun > 0 THEN Begun - 1 ELSE 0)
    /\ \A k \in 1..Len(paceLog) :
          /\ paceLog[k] = [rec |-> k, ms |-> PacingDelay]
          /\ Finished(k - 1)
    /\ \A c \in calls :
          c.rec > 0 => (c.rec <= Len(paceLog) /\ paceLog[c.rec].rec = c.rec)

C20_Witness ==
    /\ nPins = 3
    /\ useGemini
    /\ 0 \in noPayload
    /\ 1 \in caught
    /\ calls = {Call(2, "download")}
    /\ paceLog = <<[rec |-> 1, ms |-> 3500], [rec |-> 2, ms |-> 3500]>>

\* The client's promise has settled and the orchestrator takes its result.
TakingResult == opc = "analyze" /\ cpc = "returned" /\ caller = "orch"

\* C22: when the client returned null or an empty array for a record, the
\* record is left exactly as it was, its enrichment fields unset; no record
\* changes; the record is appended to the output, and the output is what the
\* export receives.
C22_NoResultLeavesRecordUnset ==
    /\ [][(/\ TakingResult
           /\ result.kind = "null" \/ (result.kind = "array" /\ Len(result.val) = 0)
           /\ opc' # "analyze") =>
             /\ pins' = pins
             /\ pins'[i + 1] = FreshPin
             /\ processedPins' = Append(processedPins, i)]_vars
    /\ [](opc = "done" => exportedPins = processedPins)

C22_Witness ==
    /\ opc = "done"
    /\ nPins = 1
    /\ sentToClient = {0}
    /\ caught = {}
    /\ result = Null
    /\ requests >= 1
    /\ pins = <<FreshPin>>
    /\ exportedPins = <<0>>

\* C23: when the client returned a non-empty array R for a record, that
\* record gets the item labels of R in order, one direct link per element of
\* R in order, and, only with preference hints, the preferred links of the
\* elements that carry a preferred_url; no other record changes.
C23_ResultAttached ==
    [][(TakingResult /\ result.kind = "array" /\ Len(result.val) > 0 /\ opc' # "analyze") =>
          LET R == result.val
              P == SelectSeq(R, HasPreferredUrl)
              pin == pins'[i + 1]
          IN  /\ pin.lensResult = Value([k \in 1..Len(R) |-> Item(R[k])])
              /\ pin.shoppingLinks.set
              /\ Len(pin.shoppingLinks.val) = Len(R)
              /\ \A k \in 1..Len(R) :
                    pin.shoppingLinks.val[k] = Link(Item(R[k]), ExactUrl(R[k]))
              /\ hasPrefs =>
                    pin.preferredLinks
                       = Value([k \in 1..Len(P) |-> Link(Item(P[k]), PreferredUrl(P[k]))])
              /\ ~hasPrefs => pin.preferredLinks = Unset
              /\ \A j \in 1..Len(pins) : j # i + 1 => pins'[j] = pins[j]]_vars

\* C24: in a run without a credential no request goes to the inference
\* service, every record keeps all its enrichment fields unset, and the
\* export receives all the records.
C24_NoCredentialNoEnrichment ==
    (opc # "idle" /\ ~useGemini) =>
        /\ sentToClient = {}
        /\ \A c \in calls : c.kind # "request"
        /\ \A k \in 1..Len(pins) : pins[k] = FreshPin
        /\ opc = "done" => Len(exportedPins) = nPins

(***************************************************************************)
(* Properties of the enrichment client's parsing.                          *)
(***************************************************************************)
\* The start of the first well-formed non-empty array in the text, 0 if none.
FirstFragment(t) ==
    LET S == {p \in 1..Len(t) :
                /\ t[p] = "["
                /\ ValueEnd(t, p) # 0
                /\ Len(TopElems(SubSeq(t, p, ValueEnd(t, p) - 1), 2)) > 0}
    IN  IF S = {} THEN 0 ELSE CHOOSE p \in S : \A q \in S : p <= q

\* C25: on a successful response the shopping functions return the first
\* well-formed non-empty array fragment of the text when there is one,
\* whatever surrounds it, and null only when there is none.
C25_FirstWellFormedFragment ==
    (cpc = "returned" /\ retSite = "success" /\ cfn \in {"analyze", "search"}) =>
        LET t == lastResp.text
            p == FirstFragment(t)
        IN  result = IF p = 0 THEN Null
                     ELSE ArrayResult(TopElems(SubSeq(t, p, ValueEnd(t, p) - 1), 2))

(***************************************************************************)
(* Properties of the harvester.                                            *)
(***************************************************************************)
UniqueLinks(list) ==
    \A j, k \in 1..Len(list) : list[j].link = list[k].link => j = k

\* C11: at every point of a harvest and in the list it returns, no two
\* accumulated records have the same link, whatever the extraction passes
\* yield (several records with one link in a pass included).
C11_LinksUnique == UniqueLinks(allPins) /\ UniqueLinks(returned)

C11_Witness ==
    /\ hpc = "done"
    /\ passes >= 3
    /\ Len(returned) = 2
    /\ returned[1].link # returned[2].link

\* C12: applying addPinsToMap again with the same extraction result leaves
\* the accumulator as the first application left it, in size and in content.
C12_MergeIdempotent ==
    mcount >= 2 => (Len(macc) = Len(mfirst) /\ macc = mfirst)

C12_Witness ==
    /\ mcount = 2
    /\ Len(mpass) = 2
    /\ mpass[1].link # mpass[2].link
    /\ Len(macc) = 2

\* C13: a record stored under a link stays stored, unchanged and at its
\* place, in every later state of the accumulator: no merge replaces it
\* (also when the pass read another title for the link) or removes it.
C13_FirstSeenWins ==
    [][\A j \in 1..Len(macc) : Len(macc') >= j /\ macc'[j] = macc[j]]_vars

C13_Witness ==
    /\ mcount = 1
    /\ \E j \in 1..Len(macc), k \in 1..Len(mpass) :
          /\ mpass[k].link = macc[j].link
          /\ mpass[k].title # macc[j].title

\* The keys of a list of records, and the place of a key's first record.
KeysOf(list) == {KeyOf(list[j]) : j \in 1..Len(list)}

FirstAt(list, key) ==
    CHOOSE j \in 1..Len(list) :
        /\ KeyOf(list[j]) = key
        /\ \A m \in 1..(j - 1) : KeyOf(list[m]) # key

\* Key a was first observed before key b, at a merge of mpass into macc:
\* both were stored by earlier passes, a before b; or a was stored by an
\* earlier pass and b is new in this one; or both are new and a's first
\* record comes first in this pass.
SeenBefore(a, b) ==
    \/ /\ a \in KeysOf(macc) /\ b \in KeysOf(macc)
       /\ FirstAt(macc, a) < FirstAt(macc, b)
    \/ /\ a \in KeysOf(macc)
       /\ b \in KeysOf(mpass) \ KeysOf(macc)
    \/ /\ a \in KeysOf(mpass) \ KeysOf(macc)
       /\ b \in KeysOf(mpass) \ KeysOf(macc)
       /\ FirstAt(mpass, a) < FirstAt(mpass, b)

\* C33: the accumulator, which getPins returns as Array.from(allPins.values()),
\* is ordered by first observation: after every merge it holds the keys seen
\* so far, and a key first observed in an earlier pass, or earlier within
\* the pass being merged, stands before a key first observed later.
C33_OrderedByFirstObservation ==
    [][mcount' = mcount + 1 =>
          /\ KeysOf(macc') = KeysOf(macc) \cup KeysOf(mpass)
          /\ \A a, b \in KeysOf(macc') :
                SeenBefore(a, b) => FirstAt(macc', a) < FirstAt(macc', b)]_vars

\* A pass that showed link 2 before link 1 was merged into an empty
\* accumulator: the result lists link 2 first.
C33_Witness ==
    /\ mcount = 1
    /\ Len(mpass) = 2 /\ mpass[1].link = 2 /\ mpass[2].link = 1
    /\ Len(macc) = 2 /\ macc[1].link = 2 /\ macc[2].link = 1

\* A harvest running on a surface of fixed extent with something visible.
OnFixedSurface == hpc # "idle" /\ fixedSurface /\ viewportHeight > 0

\* C14: on a surface of fixed extent with a positive visible extent the loop
\* ends in DONE; it advances the view fewer than extent / (0.6 * visible
\* extent) times and settles once.
C14_FixedSurfaceTerminates ==
    /\ [](OnFixedSurface =>
            /\ scrolls * 6 * viewportHeight < 10 * docHeight
            /\ settles <= 1)
    /\ (OnFixedSurface ~> hpc = "done")

C14_Witness ==
    /\ hpc = "done"
    /\ fixedSurface
    /\ viewportHeight = 50
    /\ docHeight = 200
    /\ scrolls = 4
    /\ settles = 1

\* C15: DONE is entered only from the settling pause, with the extent after
\* the pause no larger than the extent sampled before it, and with the final
\* pass; when the extent grew during the pause the loop goes on instead, with
\* no pass and nothing returned.
C15_DoneOnlyAfterQuietSettle ==
    [][/\ (hpc # "done" /\ hpc' = "done") =>
            /\ hpc = "settling"
            /\ docHeight <= documentHeight
            /\ passes' = Count(passes)
            /\ returned' = allPins'
       /\ (hpc = "settling" /\ hpc' # "settling" /\ docHeight > documentHeight) =>
            /\ hpc' = "check"
            /\ allPins' = allPins
            /\ passes' = passes
            /\ returned' = returned]_vars

C15_Witness ==
    /\ hpc = "done"
    /\ settles = 2
    /\ quietSettles = 1
    /\ docHeight > 50

\* Scroll position + visible extent >= total extent - 50, as the page is now.
WithinFiftyOfBottom == scrollY + viewportHeight >= docHeight - 50

\* C16: at the top of an iteration the settling pause is entered exactly when
\* scroll position + visible extent >= total extent - 50; then the position
\* is not advanced; otherwise the harvester scrolls and neither settles nor
\* finishes.  The position changes nowhere else.
C16_SettleExactlyAtBottom ==
    [][/\ (hpc = "check" /\ hpc' # "check") =>
            /\ (hpc' = "settling") <=> WithinFiftyOfBottom
            /\ WithinFiftyOfBottom => scrollY' = scrollY
            /\ ~WithinFiftyOfBottom => hpc' = "scrolling"
       /\ (hpc # "settling" /\ hpc' = "settling") => (hpc = "check" /\ WithinFiftyOfBottom)
       /\ (hpc # "done" /\ hpc' = "done") => WithinFiftyOfBottom
       /\ scrollY' # scrollY => (hpc = "check" /\ ~WithinFiftyOfBottom)]_vars

C16_Witness ==
    /\ hpc = "settling"
    /\ fixedSurface
    /\ scrolls >= 1
    /\ scrollY + viewportHeight < docHeight
    /\ WithinFiftyOfBottom

\* The records of the example: A under the first link, B under the second.
RecordA == [link |-> 1, title |-> "A"]

RecordB == [link |-> 2, title |-> "B"]

\* C17: at DONE the links of the returned list are exactly the links the
\* passes observed (the initial pass, one per scroll step, the final pass);
\* the passes A(k1) then A(k1)+B(k2) give the list A, B; and on a surface
\* that never grows DONE follows the first settling pause.
C17_ReturnsUnionOfObserved ==
    /\ AddPinsToMap(AddPinsToMap(<<>>, <<RecordA>>), <<RecordA, RecordB>>)
          = <<RecordA, RecordB>>
    /\ hpc = "done" =>
          /\ LinksOf(returned) = observed
          /\ returned = allPins
          /\ passes < MaxIters => passes = scrolls + 2
          /\ fixedSurface => settles = 1

C17_Witness ==
    /\ hpc = "done"
    /\ fixedSurface
    /\ passes = 2
    /\ settles = 1
    /\ observed = {1, 2}
    /\ returned = <<RecordA, RecordB>>

\* C18: the loop has no iteration cap.  The harvester is at DONE only after a
\* settling pause in which the extent did not grow, however many iterations
\* went before; with nothing visible on a surface taller than the tolerance
\* the view never reaches the bottom and DONE is never reached.
C18_NoIterationCap ==
    /\ hpc = "done" => quietSettles = 1
    /\ quietSettles = 0 => returned = <<>>
    /\ (viewportHeight = 0 /\ docHeight > BottomTolerance) => hpc # "done"

C18_Witness ==
    /\ hpc = "check"
    /\ viewportHeight = 0
    /\ scrolls = MaxIters
    /\ passes = MaxIters
    /\ settles = 0

\* C29: passes and scroll advances alternate.  One pass runs between the
\* reset to the top and the first advance; after each advance, and its
\* 1500 ms pause, exactly one pass runs before the next advance or the
\* settling pause; one final pass runs on the step into DONE; so at DONE
\* the passes number the advances plus 2.
C29_PassesAndAdvancesAlternate ==
    /\ [](passes < MaxIters =>
            /\ hpc \in {"idle", "top"} => (passes = 0 /\ scrolls = 0)
            /\ hpc \in {"check", "settling"} => passes = scrolls + 1
            /\ hpc = "scrolling" => (passes = scrolls /\ hWaitMs = 1500)
            /\ hpc = "done" => passes = scrolls + 2)
    /\ [][/\ scrolls' # scrolls => (hpc = "check" /\ hpc' = "scrolling")
          /\ passes' # passes =>
                \/ hpc = "top" /\ hpc' = "check"
                \/ hpc = "scrolling" /\ hpc' = "check"
                \/ hpc = "settling" /\ hpc' = "done"]_vars

C29_Witness ==
    /\ hpc = "done"
    /\ scrolls = 2
    /\ passes = 4
    /\ settles = 1

(***************************************************************************)
(* Properties of the listener.                                             *)
(***************************************************************************)
\* C21: whatever START_EXPORT messages the listener receives, at most one
\* run of startBackgroundExport is active at a time, and so at most one run
\* has external calls in flight.
C21_AtMostOneRunActive ==
    /\ Cardinality({r \in RunIds : Active(r)}) <= 1
    /\ Cardinality({r \in RunIds : runs[r].pc = "call"}) <= 1

(***************************************************************************)
(* Properties of the extractor.                                            *)
(***************************************************************************)
\* A candidate title text that is boilerplate: an auto-generated "image of"
\* phrase, "No description available.", the bare platform name, "via @handle".
Boilerplate(text) ==
    \/ StartsWith(text, ContainsImageOf)
    \/ StartsWith(text, ImageOf)
    \/ text \in {NoDescription, NoDescriptionDot, PlatformName, ViaHandle}

\* C26: for a candidate title text that is boilerplate, the title of the
\* pushed record is never that text.
C26_BoilerplateNeverTitle ==
    (epc = "pushed" /\ Boilerplate(eText)) => eTitle # eText

\* The first nested source that is neither empty nor a blob: URL, else null.
RECURSIVE FirstNonBlob(_)
FirstNonBlob(list) ==
    IF list = <<>> THEN NullUrl
    ELSE IF Head(list).scheme \notin {"", "blob"} THEN Head(list)
    ELSE FirstNonBlob(Tail(list))

\* C27: the videoUrl of a pushed record is null or a URL that is not a
\* blob: URL: the video element's own source when that is not a blob: URL,
\* otherwise the first nested source that is not one, otherwise null.
C27_VideoUrlNeverBlob ==
    epc = "pushed" =>
        /\ eVideoUrl.scheme # "blob"
        /\ eVideoUrl.scheme # ""
        /\ eVideoUrl =
              IF ~eHasVideo THEN NullUrl
              ELSE IF eOwnSrc.scheme \notin {"", "blob"} THEN eOwnSrc
              ELSE FirstNonBlob(eSources)

C27_Witness ==
    /\ epc = "pushed"
    /\ eHasVideo
    /\ eOwnSrc.scheme = "blob"
    /\ eSources = <<Src("blob", "s"), Src("https", "s2")>>
    /\ eVideoUrl = Src("https", "s2")

(***************************************************************************)
(* Properties of the resize step.                                          *)
(***************************************************************************)
Longer(a, b) == IF a > b THEN a ELSE b

Shorter(a, b) == IF a > b THEN b ELSE a

\* C28: the normalized size has its longer edge equal to
\* min(max(w, h), 800) and its shorter edge equal to the source's shorter
\* edge scaled by the same ratio, rounded to the nearest integer and at
\* least 1; a source with max(w, h) <= 800 keeps its size.
C28_LongerEdgeCapped ==
    zpc = "resized" =>
        LET L == Longer(srcW, srcH)
            S == Shorter(srcW, srcH)
        IN  /\ Longer(outW, outH) = (IF L > 800 THEN 800 ELSE L)
            /\ Shorter(outW, outH) >= 1
            /\ L <= 800 => (outW = srcW /\ outH = srcH)
            /\ L > 800 =>
                  /\ 2 * Shorter(outW, outH) * L - 2 * S * 800 <= L
                  /\ 2 * S * 800 - 2 * Shorter(outW, outH) * L <= L
                  /\ (srcW > srcH) = (outW > outH) \/ outW = outH

(***************************************************************************)
(* Properties of the idle-counter harvester.                               *)
(***************************************************************************)
\* C30: autoScrollUntilSettled returns only after 5 consecutive iterations
\* that observed no height above the recorded one; an iteration that
\* observes growth sets the idle counter to 0 and records the new height;
\* the recorded height is the largest height observed and never decreases.
C30_ReturnsAfterFiveIdleIterations ==
    /\ [](/\ lastHeight = highest
          /\ idleIterations = sinceHighest
          /\ spc = "returned" => sinceHighest = 5
          /\ spc = "sleeping" => sinceHighest < 5)
    /\ [][/\ lastHeight' >= lastHeight
          /\ (spc = "sleeping" /\ spc' # spc) =>
                /\ pageHeight > lastHeight =>
                      (idleIterations' = 0 /\ lastHeight' = pageHeight /\ spc' = "sleeping")
                /\ pageHeight <= lastHeight =>
                      (idleIterations' = idleIterations + 1 /\ lastHeight' = lastHeight)
          /\ (spc # "returned" /\ spc' = "returned") => idleIterations' = 5]_vars

C30_Witness ==
    /\ spc = "returned"
    /\ lastHeight = 150
    /\ pageHeight = 100
    /\ idleIterations = 5

(***************************************************************************)
(* Properties of the visual-search fallback.                               *)
(***************************************************************************)
\* A call's promise has a value.
Settled(k) == lens[k].value # "pending"

\* C31: scrapeLensWindow always settles and never rejects: in every order
\* of window creation, tab-load completion, the 15 s timeout and the end of
\* the injection, the promise takes one value, the scraped text or null,
\* and keeps it whatever resolve is called afterwards; it is null after a
\* failed window creation, after the timeout and after a failed injection,
\* and every call that was made settles.
C31_SettlesOnceNeverRejects ==
    /\ [](\A k \in LensCallIds :
            /\ lens[k].value \in {"pending", "text", "null"}
            /\ lens[k].first \in {"threw", "createFail", "timeout", "injectFail"}
                 => lens[k].value = "null"
            /\ lens[k].value = "text" => lens[k].first = "injectOk"
            /\ Settled(k) <=> lens[k].resolves > 0)
    /\ [][\A k \in LensCallIds :
            Settled(k) => /\ lens'[k].value = lens[k].value
                          /\ lens'[k].first = lens[k].first]_vars
    /\ \A k \in LensCallIds : (lens[k].pc # "idle") ~> Settled(k)

\* A call settled by its timeout whose listener then saw the tab complete
\* and whose injection then resolved a text: resolve ran twice, the value
\* stayed null.
C31_Witness ==
    \E k \in LensCallIds :
        /\ lens[k].first = "timeout" /\ lens[k].value = "null"
        /\ lens[k].resolves = 2 /\ lens[k].loaded /\ ~lens[k].inject

\* C38: once a call whose window was created has settled, its
\* tabs.onUpdated listener is no longer registered and removal of its window
\* has been requested, so the listener of a finished call never reacts to a
\* tab update.
C38_SettledCallIsCleanedUp ==
    \A k \in LensCallIds :
        (Settled(k) /\ lens[k].pc = "created")
            => /\ ~lens[k].listener
               /\ lens[k].win \in {"closing", "closed"}
               /\ ~lens[k].reacted

(***************************************************************************)
(* Properties of the run as a whole.                                       *)
(***************************************************************************)
\* C32: a run whose timers fire and whose external calls return reaches
\* self.exportToHTML, which is called once per run and only when the loop
\* has gone through every selected record; a record whose payload is
\* missing or whose processing lands in the catch block neither prevents
\* nor repeats the call.  A run leaves "idle" once and "done" never, so
\* that every started run ends is: from some point on the position is
\* "idle" (no run was started) or "done".
C32_ExportOnceAfterLastRecord ==
    /\ [](exportCalls <= 1)
    /\ [][exportCalls' # exportCalls
            => /\ exportCalls' = exportCalls + 1
               /\ i = nPins
               /\ \A r \in 0..(nPins - 1) : Finished(r)]_vars
    /\ [](opc = "done" => exportCalls = 1)
    /\ <>[](opc \in {"idle", "done"})

\* The export was called after a run in which one record had no payload and
\* another ended in the catch block.
C32_Witness ==
    /\ exportCalls = 1
    /\ opc = "done"
    /\ noPayload # {}
    /\ caught # {}

(***************************************************************************)
(* Properties of the review popup.                                         *)
(***************************************************************************)
\* C34: a displayed card is decided at most once: whatever approve and
\* reject clicks and swipes arrive, also between a decision and the removal
\* of its card 300 ms later, no card element has two entries in
\* actionHistory, and the container never holds two cards of one pin key.
C34_CardDecidedAtMostOnce ==
    /\ \A j, k \in 1..Len(actionHistory) :
          actionHistory[j].card = actionHistory[k].card => j = k
    /\ \A j, k \in 1..Len(container) :
          container[j].key = container[k].key => j = k

\* C35: a decision followed by an undo leaves every selection, that of the
\* decided pin and those of the others, as it was right before the
\* decision, and actionHistory as long as it was.
C35_UndoRestoresDecision ==
    trail.op = "commitUndo" =>
        /\ selections = trail.sel
        /\ Len(actionHistory) = trail.len

\* Pin 1 was excluded, then pin 2 was decided and that decision undone: pin
\* 1 is still excluded, pin 2 selected again, and one entry is left.
C35_Witness ==
    /\ trail.op = "commitUndo"
    /\ trail.len = 1
    /\ pPins = 2
    /\ selections[1] = "false"
    /\ selections[2] = "true"

\* A harvest request of the popup is under way.
Outstanding == queries + getPins > 0

\* C36: while no harvest request is outstanding, the export buttons are
\* enabled exactly when some loaded pin is selected, after any refresh
\* outcomes, decisions and undos.
C36_ExportEnabledIffSelected ==
    ~Outstanding => (exportDisabled <=> GetSelectedPins(pPins, selections) = {})

\* C37: the refresh buttons are disabled exactly while a request is
\* outstanding: the step that starts a request disables them, no second
\* request is started before the first completed, and every completion (no
\* active tab, unreachable page, failure response, success) enables them.
C37_RefreshDisabledWhileOutstanding ==
    /\ [](refreshDisabled <=> Outstanding)
    /\ [](queries + getPins <= 1)
    /\ [][queries' + getPins' > queries + getPins => refreshDisabled']_vars
    /\ [][(Outstanding /\ ~Outstanding') => ~refreshDisabled']_vars

\* The request started by a click, after an earlier request loaded pins, has
\* sent GET_PINS and the buttons are disabled.
C37_Witness ==
    /\ getPins = 1
    /\ pPins > 0
    /\ refreshDisabled

====
